---- MODULE Spec2Model ----
(***************************************************************************)
(* Model of the chat turn handler of backend/app.py (the ticket-escalation *)
(* state machine and the order-confirmation sub-state) together with the   *)
(* classifiers and the answer synthesizer of backend/rag_engine.py that    *)
(* the handler calls.                                                      *)
(*                                                                         *)
(* Texts are sequences of tokens: a token is a word, an e-mail address, a  *)
(* number, a single whitespace character (WS) or a fixed response          *)
(* template.  Session state is a Python dict and is modelled as a function *)
(* whose domain is the set of keys that are present.                       *)
(***************************************************************************)
EXTENDS Integers, Sequences, FiniteSets, TLC

VARIABLES
    stored,             \* content of the session file, or NoFile
    now,                \* wall clock, in minutes
    turns,              \* number of requests handled so far
    openai_client,      \* whether RagEngine.openai_client is set
    ESCALATION_METHOD,  \* "email" or "zendesk"
    last,               \* record of the most recent request
    session_cache,      \* RagEngine.session_cache: query -> (context, timestamp)
    wall,               \* time.time(), in seconds
    collection,         \* the vector store: query -> its nearest chunks, nearest first
    found,              \* record of the most recent retrieval
    asked,              \* record of the most recent RagEngine.get_answer call
    probe,              \* a validation function, its argument and its result
    chunking,           \* state of the loop of RagEngine._ingest_text_chunks
    knowledge_base,     \* the files of the knowledge-base directory
    chroma,             \* the documents of the vector store: id -> source
    ingested,           \* record of the most recent RagEngine.ingest_documents run
    requests,           \* the /api/chat requests in flight: what each loaded and computed
    workers,            \* the requests inside the retrieval cache code: where each one is
    carrier             \* ShippingAPIClient: its cached session and the call in progress

\* the variables of the components that the chat turn and the retrieval
\* pass leave alone
aux == <<asked, probe, chunking, knowledge_base, chroma, ingested, requests, workers, carrier>>

\* the variables of the chat turn and of the retrieval
core == <<stored, now, turns, openai_client, ESCALATION_METHOD, last,
          session_cache, wall, collection, found>>

vars == <<core, aux>>

\* no call of get_answer has been recorded
NoAnswer == [kind |-> "none"]

\* no validation function has been applied
NoProbe == [kind |-> "none"]

\* no text is being chunked
NoChunking == [kind |-> "none"]

\* an empty knowledge-base directory
NoFiles == <<>>

\* an empty vector store
NoDocuments == <<>>

\* no ingestion has run
NoIngestion == [kind |-> "none"]

\* no request is in flight
NoRequests == <<>>

\* no request is inside the retrieval cache code
NoWorkers == <<>>

\* no shipping client is in use
NoCarrier == [pc |-> "none"]

\* the components outside a specification are at rest
AuxIdle ==
    /\ asked = NoAnswer
    /\ probe = NoProbe
    /\ chunking = NoChunking
    /\ knowledge_base = NoFiles
    /\ chroma = NoDocuments
    /\ ingested = NoIngestion
    /\ requests = NoRequests
    /\ workers = NoWorkers
    /\ carrier = NoCarrier

\* ------------------------------------------------------------------------
\* Bounds
\* ------------------------------------------------------------------------
MaxTurns == 3
MaxClock == 7
MaxLongTurns == 2
MaxResults == 6
MaxWall == 600
MaxDamagedTurns == 2
MaxRuns == 3
MaxEmailLen == 7
MaxText == 6
MaxChunkSize == 5
MaxIterations == 7
MaxEmbeddingFailures == 1
MaxIngestions == 2
MaxRequests == 2

\* the threads that are inside the retrieval cache code at one time
MaxWorkers == 2

\* requests of a conversation with replies that say yes and no at once
MaxMixedTurns == 2

\* requests of a conversation that starts with an empty or a full history
MaxHistoryTurns == 3

\* calls of ShippingAPIClient.get_shipment_status on one client
MaxCalls == 2

\* frames of get_shipment_status the interpreter allows on its stack: the
\* recursion limit of the interpreter, scaled down
RecursionLimit == 3

\* the clock of the shipping client, in minutes
MaxShippingClock == 230

\* ------------------------------------------------------------------------
\* Program constants
\* ------------------------------------------------------------------------
\* variant: the limit is one character lower
MAX_MESSAGE_LENGTH_Short == 1000 - 1

MAX_MESSAGE_LENGTH == 1000
CONFIRMATION_TIMEOUT == 5
\* RAG_RELEVANCE_THRESHOLD, default 1.2; distances are counted in tenths
relevance_threshold == 12
\* seconds
cache_ttl == 300

\* ------------------------------------------------------------------------
\* Python dict helpers
\* ------------------------------------------------------------------------
Get(d, k, default) == IF k \in DOMAIN d THEN d[k] ELSE default

Put(d, k, v) == [x \in (DOMAIN d) \cup {k} |-> IF x = k THEN v ELSE d[x]]

Pop(d, k) == [x \in (DOMAIN d) \ {k} |-> d[x]]

\* ------------------------------------------------------------------------
\* Texts
\* ------------------------------------------------------------------------
WS == " "

\* str.lower() on one token
LowerTok(t) ==
    CASE t = "Ja"     -> "ja"
      [] t = "Cacao"  -> "cacao"
      [] t = "New_Question" -> "new_question"
      [] OTHER        -> t

Lower(text) == [i \in 1..Len(text) |-> LowerTok(text[i])]

\* number of characters of one token
TokLen(t) ==
    CASE t = WS           -> 1
      [] t = "ja"         -> 2
      [] t = "Ja"         -> 2
      [] t = "nee"        -> 3
      [] t = "123"        -> 3
      [] t = "order"      -> 5
      [] t = "Wilco"      -> 5
      [] t = "a@b.co"     -> 6
      [] t = "long@b.co"  -> 1001
      [] t = "word1000"   -> 1000
      [] OTHER            -> 8

RECURSIVE len(_)
len(text) == IF text = <<>> THEN 0 ELSE TokLen(Head(text)) + len(Tail(text))

RECURSIVE lstrip(_)
lstrip(text) ==
    IF text # <<>> /\ Head(text) = WS THEN lstrip(Tail(text)) ELSE text

RECURSIVE rstrip(_)
rstrip(text) ==
    IF text # <<>> /\ text[Len(text)] = WS
    THEN rstrip(SubSeq(text, 1, Len(text) - 1))
    ELSE text

strip(text) == rstrip(lstrip(text))

Contains(text, tok) == \E i \in 1..Len(text) : text[i] = tok

\* variant: the first n entries are kept instead of the last n
LastN_First(s, n) == IF Len(s) <= n THEN s ELSE SubSeq(s, 1, n)

\* text[-n:]
LastN(s, n) == IF Len(s) <= n THEN s ELSE SubSeq(s, Len(s) - n + 1, Len(s))

\* ------------------------------------------------------------------------
\* Validation and keyword matching (app.py)
\* ------------------------------------------------------------------------
\* tokens matched in full by EMAIL_REGEX: local@domain.tld with a tld of
\* two or more letters
EmailTokens == {"a@b.co", "long@b.co"}

\* EMAIL_REGEX is anchored and admits no whitespace: the whole text has to
\* be one address
is_valid_email(email) == Len(email) = 1 /\ email[1] \in EmailTokens

AffirmativeWords == {"ja", "yes", "correct", "klopt", "inderdaad"}
NegativeWords == {"nee", "no", "nope", "incorrect", "verkeerd"}

\* re.search(r'\b(ja|yes|correct|klopt|inderdaad)\b', user_message.lower())
IsAffirmative(user_message) ==
    \E i \in 1..Len(user_message) : Lower(user_message)[i] \in AffirmativeWords

\* variant: every message counts as a negative reply
IsNegative_Always(user_message) == TRUE

\* re.search(r'\b(nee|no|nope|incorrect|verkeerd)\b', user_message.lower())
IsNegative(user_message) ==
    \E i \in 1..Len(user_message) : Lower(user_message)[i] \in NegativeWords

OrderKeywords == {"order", "bestelling", "bestellingnummer", "zending", "zendingnummer"}
DigitTokens == {"123", "456"}

\* positions of the digits of an order reference: keyword \s* #? \s* digits
OrderMatches(user_message) ==
    LET t == Lower(user_message) IN
    {j \in 1..Len(t) :
        /\ t[j] \in DigitTokens
        /\ \E i \in 1..(j - 1) :
              /\ t[i] \in OrderKeywords
              /\ \E h \in i..(j - 1) :
                    /\ \A k \in (i + 1)..h : t[k] = WS
                    /\ \/ h = j - 1
                       \/ /\ t[h + 1] = "#"
                          /\ \A k \in (h + 2)..(j - 1) : t[k] = WS}

Min(S) == CHOOSE x \in S : \A y \in S : x <= y

\* order_match.group(1) of the first match, or "none"
order_match(user_message) ==
    IF OrderMatches(user_message) = {} THEN "none"
    ELSE Lower(user_message)[Min(OrderMatches(user_message))]

\* ------------------------------------------------------------------------
\* Replies of the LLM completion endpoint.  exc: the call raised;
\* content = <<>>: message.content is None or empty.
\* ------------------------------------------------------------------------
Reply(c) == [exc |-> FALSE, content |-> c]
Raised == [exc |-> TRUE, content |-> <<>>]

Languages == {"nl", "en"}
Intents == {"giving_name", "declining", "new_question"}

\* ------------------------------------------------------------------------
\* Classifiers and synthesizer (rag_engine.py)
\* ------------------------------------------------------------------------
\* single-token texts that contain one of decline_keywords as a substring
\* ('no' is a substring of 'arnold', 'nope', 'not')
DeclineTokens == {"nee", "no", "nope", "arnold", "not"}
\* two-word decline_keywords that contain no shorter keyword
DeclinePhrases == {<<"laat", "maar">>, <<"never", "mind">>, <<"forget", "it">>,
                   <<"niet", "nodig">>, <<"hoeft", "niet">>, <<"geen", "interesse">>}

HasDeclineKeyword(text) ==
    LET text_lower == strip(Lower(text)) IN
    \/ \E i \in 1..Len(text_lower) : text_lower[i] \in DeclineTokens
    \/ \E i \in 1..(Len(text_lower) - 2) :
          /\ text_lower[i + 1] = WS
          /\ <<text_lower[i], text_lower[i + 2]>> \in DeclinePhrases

\* variant: whatever the model answers is returned
detect_ticket_intent_Trusting(text, client, r) ==
    IF HasDeclineKeyword(text) THEN "declining"
    ELSE IF ~client THEN "giving_name"
    ELSE IF r.exc THEN "giving_name"
    ELSE LET result == Lower(strip(r.content)) IN
         IF r.content # <<>> /\ Len(result) = 1 THEN result[1] ELSE "giving_name"

\* detect_ticket_intent: what the user wants when asked for a name
detect_ticket_intent(text, client, r) ==
    IF HasDeclineKeyword(text) THEN "declining"
    ELSE IF ~client THEN "giving_name"
    ELSE IF r.exc THEN "giving_name"
    ELSE LET result == Lower(strip(r.content)) IN
         IF r.content # <<>> /\ Len(result) = 1 /\ result[1] \in Intents
         THEN result[1]
         ELSE "giving_name"

extract_name(text, client, r) ==
    IF ~client THEN text
    ELSE IF r.exc THEN text
    ELSE IF r.content # <<>> THEN strip(r.content)
    ELSE text

detect_language(text, client, r) ==
    IF ~client THEN "en"
    ELSE IF len(strip(text)) < 5 THEN "nl"
    ELSE IF r.exc THEN "nl"
    ELSE LET result == Lower(strip(r.content)) IN
         IF r.content # <<>> /\ Len(result) = 1 /\ result[1] \in Languages
         THEN result[1]
         ELSE "nl"

UNKNOWN == "__UNKNOWN__"
HUMAN_REQUESTED == "__HUMAN_REQUESTED__"

\* context: whether retrieval produced a non-empty context
get_answer(query, chat_history, language, client, context, r) ==
    IF ~client THEN <<"Error: OpenAI API Key invalid or client not initialized.">>
    ELSE IF ~context /\ chat_history = <<>> THEN <<UNKNOWN>>
    ELSE IF r.exc
         THEN (IF language = "en" THEN <<"Oops, something went wrong on my end!">>
               ELSE <<"Oeps, er ging even iets mis aan mijn kant!">>)
         ELSE r.content

generate_helpful_unknown_response(question, language, client, r) ==
    IF ~client
    THEN (IF language = "nl" THEN <<"Hmm, geen specifieke informatie. Collega vragen?">>
          ELSE <<"Hmm, no specific information. Ask a colleague?">>)
    ELSE IF ~r.exc /\ r.content # <<>> THEN strip(r.content)
    ELSE (IF language = "nl" THEN <<"Hmm, geen specifieke informatie.">>
          ELSE <<"Hmm, no specific information.">>)

\* ------------------------------------------------------------------------
\* Collaborator outcomes drawn for a turn
\* ------------------------------------------------------------------------
IntentReplies == {Raised, Reply(<<>>), Reply(<<"giving_name">>), Reply(<<"declining">>),
                  Reply(<<WS, "New_Question">>), Reply(<<"maybe">>)}
NameReplies == {Raised, Reply(<<WS, "Wilco", WS>>)}
LanguageReplies == {Raised, Reply(<<"en">>), Reply(<<"nl">>), Reply(<<"fr">>)}
AnswerReplies == {Raised, Reply(<<"answer">>), Reply(<<UNKNOWN>>),
                  Reply(<<HUMAN_REQUESTED>>), Reply(<<"sorry", UNKNOWN, HUMAN_REQUESTED>>)}
HelpfulReplies == {Raised, Reply(<<"helpful">>), Reply(<<UNKNOWN>>)}

\* return values of send_email / create_ticket: a result dict or None
EscalationResults == {[null |-> FALSE, id |-> "T-1"], [null |-> TRUE, id |-> "none"]}

\* return values of ShippingAPIClient.get_shipment_status
ShipmentResults ==
    {[success |-> TRUE, status |-> "in_transit", error |-> "None"],
     [success |-> FALSE, status |-> "not_found", error |-> "Zendingnummer niet gevonden"]}

\* ------------------------------------------------------------------------
\* Retrieval (rag_engine.py lines 204-231 and 575-638)
\* ------------------------------------------------------------------------
\* a document id is the sequence of the parts that "_" separates:
\* "my_faq.md_chunk_3" is <<"my", "faq.md", "chunk", "3">>
\* "_chunk_" in doc_id
HasChunkMarker(doc_id) == \E j \in 2..(Len(doc_id) - 1) : doc_id[j] = "chunk"

\* "_".join(doc_id.split("_")[:-2]) if "_chunk_" in doc_id else doc_id
SourceOf(doc_id) ==
    IF HasChunkMarker(doc_id) THEN SubSeq(doc_id, 1, Len(doc_id) - 2) ELSE doc_id

\* variant: the distance is not tested
Relevant_All(distance) == TRUE

\* distance <= self.relevance_threshold
Relevant(distance) == distance <= relevance_threshold

\* lines 588-600: the results within the threshold, in the order returned
RECURSIVE FilterByDistance(_)
FilterByDistance(results) ==
    IF results = <<>> THEN <<>>
    ELSE (IF Relevant(Head(results).distance) THEN <<Head(results)>> ELSE <<>>)
           \o FilterByDistance(Tail(results))

\* variant: one more chunk is taken before the loop stops
MAX_CONTEXT_CHUNKS_More == 5 + 1

\* if len(diversified_docs) >= 5: break
MAX_CONTEXT_CHUNKS == 5

\* if source_count.get(source, 0) < 2
MAX_PER_SOURCE == 2

\* lines 617-628: the loop over the filtered results
RECURSIVE Diversify(_, _, _)
Diversify(filtered, source_count, diversified) ==
    IF filtered = <<>> THEN diversified
    ELSE LET item == Head(filtered)
             source == SourceOf(item.id)
             admit == Get(source_count, source, 0) < MAX_PER_SOURCE
             docs == IF admit THEN Append(diversified, item) ELSE diversified
             counts == IF admit
                       THEN Put(source_count, source, Get(source_count, source, 0) + 1)
                       ELSE source_count
         IN  IF Len(docs) >= MAX_CONTEXT_CHUNKS THEN docs
             ELSE Diversify(Tail(filtered), counts, docs)

\* "\n\n".join(diversified_docs): the context is the sequence of the texts
Join(items) == [i \in 1..Len(items) |-> items[i].doc]

\* None and "" alike: `if cached_context` and `if context` test truthiness
NoContext == <<>>

\* an entry of the dict: the (context, timestamp) tuple stored for a key and
\* the key's place in the dict's insertion order
NoEntry == [context |-> NoContext, timestamp |-> -1, position |-> 0]

\* variant: an entry of exactly cache_ttl seconds is still served
Fresh_Inclusive(t, timestamp) == t - timestamp <= cache_ttl

\* time.time() - timestamp < self.cache_ttl
Fresh(t, timestamp) == t - timestamp < cache_ttl

\* del self.session_cache[query]: the keys behind it move up one place
Forget(cache, query) ==
    [k \in DOMAIN cache \ {query} |->
        IF cache[k].position > cache[query].position
        THEN [cache[k] EXCEPT !.position = @ - 1]
        ELSE cache[k]]

\* _get_cached_context: the value returned and the cache it leaves
get_cached_context(cache, query, t) ==
    IF query \in DOMAIN cache
    THEN IF Fresh(t, cache[query].timestamp)
         THEN [context |-> cache[query].context, cache |-> cache]
         ELSE [context |-> NoContext, cache |-> Forget(cache, query)]
    ELSE [context |-> NoContext, cache |-> cache]

CACHE_MAX_ENTRIES == 50
CACHE_EVICTED == 10

\* sorted(self.session_cache.items(), key=lambda x: x[1][1]): the sort is
\* stable and a dict iterates in insertion order, so entries of one
\* timestamp keep their insertion order
Older(a, b) ==
    \/ a.timestamp < b.timestamp
    \/ a.timestamp = b.timestamp /\ a.position <= b.position

\* for key, _ in sorted_items[:n]: del self.session_cache[key]
RECURSIVE EvictOldest(_, _)
EvictOldest(cache, n) ==
    IF n = 0 \/ DOMAIN cache = {} THEN cache
    ELSE LET oldest == CHOOSE k \in DOMAIN cache :
                          \A j \in DOMAIN cache : Older(cache[k], cache[j])
         IN  EvictOldest(Forget(cache, oldest), n - 1)

\* the place a key assigned to the dict takes: its own when it is already a
\* key, the end otherwise
PositionOf(cache, query) ==
    IF query \in DOMAIN cache THEN cache[query].position
    ELSE Cardinality(DOMAIN cache) + 1

\* variant: the eviction starts one entry later
Exceeds_Late(size) == size > CACHE_MAX_ENTRIES + 1

\* len(self.session_cache) > 50
Exceeds(size) == size > CACHE_MAX_ENTRIES

\* _cache_context
cache_context(cache, query, context, t) ==
    LET stored_entry == Put(cache, query, [context |-> context, timestamp |-> t,
                                           position |-> PositionOf(cache, query)])
    IN  IF Exceeds(Cardinality(DOMAIN stored_entry))
        THEN EvictOldest(stored_entry, CACHE_EVICTED)
        ELSE stored_entry

\* what the embedding call and the vector search do when they are made:
\* either raises, or the search returns the nearest chunks of the collection
RetrievalOutcomes(results) ==
    {[embedding |-> "raise", search |-> "none", results |-> <<>>],
     [embedding |-> "ok", search |-> "raise", results |-> <<>>],
     [embedding |-> "ok", search |-> "ok", results |-> results]}

NoOutcome == [embedding |-> "none", search |-> "none", results |-> <<>>]

\* get_answer, lines 575-640: the context for search_query at time t, the
\* cache left behind and the calls made
retrieve(cache, t, search_query, outcome) ==
    LET looked == get_cached_context(cache, search_query, t)
        base == [context |-> NoContext, cache |-> looked.cache, hit |-> FALSE,
                 embeddings |-> 0, searches |-> 0, ids |-> <<>>]
    IN
    IF looked.context # NoContext
    THEN [base EXCEPT !.context = looked.context, !.hit = TRUE]
    ELSE IF outcome.embedding = "raise"
    THEN [base EXCEPT !.embeddings = 1]
    ELSE IF outcome.search = "raise"
    THEN [base EXCEPT !.embeddings = 1, !.searches = 1]
    ELSE LET filtered == FilterByDistance(outcome.results)
             diversified == IF filtered # <<>> THEN Diversify(filtered, <<>>, <<>>) ELSE <<>>
             context == Join(diversified)
         IN  [base EXCEPT
                 !.context = context,
                 !.embeddings = 1,
                 !.searches = 1,
                 !.ids = [i \in 1..Len(diversified) |-> diversified[i].id],
                 !.cache = IF context # NoContext
                           THEN cache_context(looked.cache, search_query, context, t)
                           ELSE looked.cache]

NoRetrieval ==
    [kind |-> "none", query |-> "none", at |-> 0, entry |-> NoEntry,
     outcome |-> NoOutcome, result |-> [context |-> NoContext, cache |-> <<>>, hit |-> FALSE,
                                    embeddings |-> 0, searches |-> 0, ids |-> <<>>]]

\* ------------------------------------------------------------------------
\* Session store (app.py)
\* ------------------------------------------------------------------------
NoFile == <<>>

\* a session file that cannot be loaded: open() or read() fails with an
\* IOError, the text is not JSON, or the bytes are not UTF-8
LoadErrors == {"IOError", "JSONDecodeError", "UnicodeDecodeError"}

Unreadable(error) == [unreadable |-> error]

IsUnreadable(file) == DOMAIN file = {"unreadable"}

\* except (json.JSONDecodeError, IOError)
CaughtLoadErrors == {"JSONDecodeError", "IOError"}

\* the exception that leaves get_session_state
Raises(error) == [raised |-> error]

IsRaised(state_data) == DOMAIN state_data = {"raised"}

get_session_state(file) ==
    IF file = NoFile THEN [state |-> "inactive"]
    ELSE IF IsUnreadable(file)
    THEN (IF file["unreadable"] \in CaughtLoadErrors THEN [state |-> "inactive"]
          ELSE Raises(file["unreadable"]))
    ELSE file

\* ------------------------------------------------------------------------
\* Outcome of one request: what the handler returned, what it left in the
\* session file and which collaborators it called
\* ------------------------------------------------------------------------
NoResult(file) ==
    [response    |-> <<>>,      \* text returned to the user
     stored      |-> file,      \* session file after the request
     loaded      |-> FALSE,     \* get_session_state was called
     saved       |-> FALSE,     \* save_session_state was called
     intent      |-> "none",    \* value of detect_ticket_intent, if called
     name_asked  |-> FALSE,     \* extract_name was called
     clean_name  |-> <<>>,      \* value of extract_name
     escalations |-> <<>>,      \* calls of send_email / create_ticket
     delivered   |-> "none",    \* "ok" or "null": what the escalation call returned
     lookups     |-> <<>>,      \* calls of get_shipment_status
     answered    |-> FALSE,     \* get_answer was called
     raw         |-> <<>>,      \* value of get_answer
     lang        |-> "none",    \* value of detect_language, if called
     helpful     |-> FALSE,     \* generate_helpful_unknown_response was called
     shipment    |-> "none",    \* success of the shipment lookup, if made
     crashed     |-> FALSE]     \* an exception left the handler: HTTP 500

Save(r, state_data) == [r EXCEPT !.stored = state_data, !.saved = TRUE]

Entry(role, content) == [role |-> role, content |-> content]

\* variant: the flag is left behind when the sub-state is cleared
ClearConfirmation_FlagKept(state_data) ==
    Pop(Pop(state_data, "pending_order_id"), "confirmation_timestamp")

\* the three pops of the order-confirmation sub-state
ClearConfirmation(state_data) ==
    Pop(Pop(Pop(state_data, "awaiting_order_confirmation"), "pending_order_id"),
        "confirmation_timestamp")

format_shipping_response(result, order_id) == <<"Status zending", order_id, result.status>>

\* ------------------------------------------------------------------------
\* chat(), app.py lines 657-698: language detection, answer synthesis,
\* sentinel handling and the update of the conversation history
\* ------------------------------------------------------------------------
AskName(detected_lang) ==
    IF detected_lang = "nl" THEN <<"Natuurlijk! Wat is je naam?">>
    ELSE <<"Of course! What's your name?">>

\* variant: the sentinel is compared with == instead of searched
IsHumanRequest_Exact(raw_text) == raw_text = <<HUMAN_REQUESTED>>

\* "__HUMAN_REQUESTED__" in response_text
IsHumanRequest(raw_text) == Contains(raw_text, HUMAN_REQUESTED)

\* "__UNKNOWN__" in response_text, tested only when the first test failed
IsUnknown(raw_text) == ~IsHumanRequest(raw_text) /\ Contains(raw_text, UNKNOWN)

\* the tail of the turn once get_answer returned raw_text and, for an
\* __UNKNOWN__ answer, the follow-up call returned helpful_text
FinishAnswer(state_data, chat_history, user_message, detected_lang, raw_text, helpful_text, r) ==
    LET sd1 == Put(state_data, "language", detected_lang)
        human == IsHumanRequest(raw_text)
        unknown == IsUnknown(raw_text)
        sd2 == IF human
               THEN Put(Put(sd1, "state", "awaiting_name"), "question", user_message)
               ELSE sd1
        response_text == IF human THEN AskName(detected_lang)
                         ELSE IF unknown THEN helpful_text
                         ELSE raw_text
        history == chat_history \o <<Entry("user", user_message),
                                     Entry("assistant", response_text)>>
    IN  [Save(r, Put(sd2, "chat_history", LastN(history, 10)))
            EXCEPT !.response = response_text,
                   !.answered = TRUE,
                   !.raw = raw_text,
                   !.lang = detected_lang,
                   !.helpful = unknown]

AnswerPipeline(state_data, chat_history, user_message, client, r) ==
    UNION {
      UNION {
        IF IsUnknown(raw_text)
        THEN {FinishAnswer(state_data, chat_history, user_message, detected_lang, raw_text,
                           generate_helpful_unknown_response(user_message, detected_lang, client, h), r)
              : h \in HelpfulReplies}
        ELSE {FinishAnswer(state_data, chat_history, user_message, detected_lang, raw_text, <<>>, r)}
        : raw_text \in {get_answer(user_message, chat_history, detected_lang, client, context, a)
                        : context \in BOOLEAN, a \in AnswerReplies}}
      : detected_lang \in {detect_language(user_message, client, l) : l \in LanguageReplies}}

\* ------------------------------------------------------------------------
\* chat(), app.py lines 640-655: order reference in the message
\* ------------------------------------------------------------------------
\* variant: the pending confirmation is stored without its timestamp
WithConfirmation_NoTimestamp(state_data, order_id, t) ==
    Put(Put(state_data, "awaiting_order_confirmation", TRUE), "pending_order_id", order_id)

\* lines 648-650: the three assignments of the order-confirmation sub-state
WithConfirmation(state_data, order_id, t) ==
    Put(Put(Put(state_data, "awaiting_order_confirmation", TRUE),
            "pending_order_id", order_id),
        "confirmation_timestamp", t)

OrderDetection(state_data, chat_history, user_message, t, client, r) ==
    LET order_id == order_match(user_message) IN
    IF order_id # "none"
    THEN LET sd == WithConfirmation(state_data, order_id, t)
         IN  {[Save(r, sd) EXCEPT
                 !.response = <<"Wil je de status opvragen van zending", order_id, "?">>]}
    ELSE AnswerPipeline(state_data, chat_history, user_message, client, r)

\* ------------------------------------------------------------------------
\* chat(), app.py lines 595-638: reply to a pending order confirmation
\* ------------------------------------------------------------------------
NoTimestamp == -1

\* variant: the age of the confirmation is never checked
Stale_Never(t, confirmation_time) == FALSE

\* datetime.now() - ts > timedelta(minutes=5)
Stale(t, confirmation_time) == t - confirmation_time > CONFIRMATION_TIMEOUT

\* variant: the sub-state is cleared only when the lookup succeeded
Confirmed_ClearOnSuccess(state_data, order_id, result, r) ==
    [Save(r, IF result.success THEN ClearConfirmation(state_data) ELSE state_data) EXCEPT
        !.lookups = <<order_id>>,
        !.shipment = IF result.success THEN "success" ELSE "failure",
        !.response = IF result.success
                     THEN format_shipping_response(result, order_id)
                     ELSE <<"X", result.error>>]

\* lines 609-628: the turn after get_shipment_status(order_id) returned
\* result: the three pops, the save and the formatted answer
Confirmed(state_data, order_id, result, r) ==
    [Save(r, ClearConfirmation(state_data)) EXCEPT
        !.lookups = <<order_id>>,
        !.shipment = IF result.success THEN "success" ELSE "failure",
        !.response = IF result.success
                     THEN format_shipping_response(result, order_id)
                     ELSE <<"X", result.error>>]

\* variant: the negative keywords are tested before the affirmative ones
OrderConfirmation_NegativeFirst(state_data, chat_history, user_message, t, client, r) ==
    LET confirmation_time == Get(state_data, "confirmation_timestamp", NoTimestamp)
        order_id == Get(state_data, "pending_order_id", "None")
        cleared == ClearConfirmation(state_data)
    IN
    IF Get(state_data, "awaiting_order_confirmation", FALSE) /\ confirmation_time # NoTimestamp
    THEN IF Stale(t, confirmation_time)
         THEN OrderDetection(cleared, chat_history, user_message, t, client, Save(r, cleared))
         ELSE IF IsNegative(user_message)
         THEN {[Save(r, cleared) EXCEPT
                  !.response = <<"Oke, geen probleem! Wat is je correcte bestelnummer?">>]}
         ELSE IF IsAffirmative(user_message)
         THEN {Confirmed(state_data, order_id, result, r) : result \in ShipmentResults}
         ELSE OrderDetection(state_data, chat_history, user_message, t, client, r)
    ELSE OrderDetection(state_data, chat_history, user_message, t, client, r)

\* lines 595-638: a fresh confirmation is answered by yes or by no; the
\* affirmative keywords are tested first
OrderConfirmation(state_data, chat_history, user_message, t, client, r) ==
    LET confirmation_time == Get(state_data, "confirmation_timestamp", NoTimestamp)
        order_id == Get(state_data, "pending_order_id", "None")
        cleared == ClearConfirmation(state_data)
    IN
    IF Get(state_data, "awaiting_order_confirmation", FALSE) /\ confirmation_time # NoTimestamp
    THEN IF Stale(t, confirmation_time)
         THEN OrderDetection(cleared, chat_history, user_message, t, client, Save(r, cleared))
         ELSE IF IsAffirmative(user_message)
         THEN {Confirmed(state_data, order_id, result, r) : result \in ShipmentResults}
         ELSE IF IsNegative(user_message)
         THEN {[Save(r, cleared) EXCEPT
                  !.response = <<"Oke, geen probleem! Wat is je correcte bestelnummer?">>]}
         ELSE OrderDetection(state_data, chat_history, user_message, t, client, r)
    ELSE OrderDetection(state_data, chat_history, user_message, t, client, r)

\* ------------------------------------------------------------------------
\* chat(), app.py lines 494-592: the name / e-mail dialogue
\* ------------------------------------------------------------------------
NoProblem(user_lang) ==
    IF user_lang = "nl" THEN <<"Geen probleem! Waarmee kan ik je verder helpen?">>
    ELSE <<"No problem! How else can I help you?">>

\* variant: a cancelled ticket also empties the history
Reset_Cleared(chat_history) == [state |-> "inactive", chat_history |-> <<>>]

Reset(chat_history) == [state |-> "inactive", chat_history |-> chat_history]

\* variant: the session is rebuilt instead of updated, losing the question
WithName_Rebuilt(state_data, clean_name) ==
    [state |-> "awaiting_email", name |-> clean_name,
     chat_history |-> Get(state_data, "chat_history", <<>>)]

\* state_data['name'] = clean_name; state_data['state'] = 'awaiting_email'
WithName(state_data, clean_name) ==
    Put(Put(state_data, "name", clean_name), "state", "awaiting_email")

\* variant: the state field is not reset after the escalation
EscalationReset_StateKept == [state |-> "awaiting_email", chat_history |-> <<>>]

\* the session written after the escalation call
EscalationReset == [state |-> "inactive", chat_history |-> <<>>]

\* variant: the invalid address sends the dialogue back to the name step
RepromptEmail_BackToName(state_data, user_lang, r) ==
    [r EXCEPT !.stored = Put(state_data, "state", "awaiting_name"),
              !.saved = TRUE,
              !.response =
                 IF user_lang = "nl"
                 THEN <<"Hmm, dat lijkt niet helemaal te kloppen. E-mailadres checken?">>
                 ELSE <<"Hmm, that doesn't look quite right. Double-check your email?">>]

\* the answer to an invalid e-mail address that is neither a decline nor a
\* new question: no save
RepromptEmail(state_data, user_lang, r) ==
    [r EXCEPT !.response =
        IF user_lang = "nl"
        THEN <<"Hmm, dat lijkt niet helemaal te kloppen. E-mailadres checken?">>
        ELSE <<"Hmm, that doesn't look quite right. Double-check your email?">>]

\* variant: the result of the escalation call is not inspected
EscalationResponse_IgnoresFailure(result, method, user_lang) ==
    IF user_lang = "nl"
    THEN <<"Top! Ik heb je bericht doorgestuurd naar een collega.">>
    ELSE <<"Great! I've forwarded your message to a colleague.">>

\* the answer after the escalation call returned result
EscalationResponse(result, method, user_lang) ==
    IF ~result.null
    THEN IF method = "zendesk"
         THEN (IF user_lang = "nl"
               THEN <<"Top! Ik heb ticket", result.id, "voor je aangemaakt.">>
               ELSE <<"Great! I've created ticket", result.id, "for you.">>)
         ELSE (IF user_lang = "nl"
               THEN <<"Top! Ik heb je bericht doorgestuurd naar een collega.">>
               ELSE <<"Great! I've forwarded your message to a colleague.">>)
    ELSE (IF user_lang = "nl"
          THEN <<"Sorry, er ging iets mis bij het versturen van je bericht.">>
          ELSE <<"I'm sorry, something went wrong sending your message.">>)

AwaitingName(state_data, chat_history, user_lang, user_message, t, client, r) ==
    UNION {
      LET intent == detect_ticket_intent(user_message, client, i)
          ri == [r EXCEPT !.intent = intent]
      IN
      IF intent = "declining"
      THEN {[Save(ri, Reset(chat_history)) EXCEPT !.response = NoProblem(user_lang)]}
      ELSE IF intent = "new_question"
      THEN OrderConfirmation(Reset(chat_history), chat_history, user_message, t, client,
                             Save(ri, Reset(chat_history)))
      ELSE {LET clean_name == extract_name(user_message, client, n)
                sd == WithName(state_data, clean_name)
            IN  [Save(ri, sd) EXCEPT
                    !.name_asked = TRUE,
                    !.clean_name = clean_name,
                    !.response = (IF user_lang = "nl"
                                  THEN <<"Leuk je te ontmoeten,">> \o clean_name
                                       \o <<"Wat is je e-mailadres?">>
                                  ELSE <<"Nice to meet you,">> \o clean_name
                                       \o <<"What's your email address?">>)]
            : n \in NameReplies}
      : i \in IntentReplies}

Escalate(state_data, chat_history, user_lang, email, method, r) ==
    LET name == Get(state_data, "name", <<"Unknown">>)
        original_q == Get(state_data, "question", <<>>)
        call == [method   |-> IF method = "zendesk" THEN "create_ticket" ELSE "send_email",
                 name     |-> name,
                 email    |-> email,
                 question |-> original_q,
                 history  |-> chat_history]
    IN  {[Save(r, EscalationReset) EXCEPT
            !.escalations = <<call>>,
            !.delivered = IF result.null THEN "null" ELSE "ok",
            !.response = EscalationResponse(result, method, user_lang)]
         : result \in EscalationResults}

AwaitingEmail(state_data, chat_history, user_lang, user_message, t, client, method, r) ==
    LET email == strip(user_message) IN
    IF ~is_valid_email(email)
    THEN UNION {
           LET intent == detect_ticket_intent(user_message, client, i)
               ri == [r EXCEPT !.intent = intent]
           IN
           IF intent = "declining"
           THEN {[Save(ri, Reset(chat_history)) EXCEPT !.response = NoProblem(user_lang)]}
           ELSE IF intent = "new_question"
           THEN OrderConfirmation(Reset(chat_history), chat_history, user_message, t, client,
                                  Save(ri, Reset(chat_history)))
           ELSE {RepromptEmail(state_data, user_lang, ri)}
           : i \in IntentReplies}
    ELSE Escalate(state_data, chat_history, user_lang, email, method, r)

\* ------------------------------------------------------------------------
\* chat(), app.py lines 466-698: every outcome the handler can produce for
\* a request, given the session file, the clock and the configuration
\* ------------------------------------------------------------------------
\* variant: a pending order confirmation is looked at before the primary state
chat_ConfirmationFirst(file, t, user_message, client, method) ==
    IF user_message = <<>>
    THEN {[NoResult(file) EXCEPT !.response = <<"He, ik zie niks! Typ gerust je vraag.">>]}
    ELSE IF len(user_message) > MAX_MESSAGE_LENGTH
    THEN {[NoResult(file) EXCEPT !.response = <<"Oei, dat is een lange tekst!">>]}
    ELSE LET state_data == get_session_state(file)
             current_state == Get(state_data, "state", "inactive")
             user_lang == Get(state_data, "language", "en")
             chat_history == Get(state_data, "chat_history", <<>>)
             r == [NoResult(file) EXCEPT !.loaded = TRUE]
         IN
         IF IsRaised(state_data)
         THEN {[r EXCEPT !.crashed = TRUE, !.response = <<"500 Internal Server Error">>]}
         ELSE IF Get(state_data, "awaiting_order_confirmation", FALSE)
         THEN OrderConfirmation(state_data, chat_history, user_message, t, client, r)
         ELSE IF current_state = "awaiting_name"
         THEN AwaitingName(state_data, chat_history, user_lang, user_message, t, client, r)
         ELSE IF current_state = "awaiting_email"
         THEN AwaitingEmail(state_data, chat_history, user_lang, user_message, t, client, method, r)
         ELSE OrderConfirmation(state_data, chat_history, user_message, t, client, r)

\* chat(): validation, load, then the branch of the primary state
chat(file, t, user_message, client, method) ==
    IF user_message = <<>>
    THEN {[NoResult(file) EXCEPT !.response = <<"He, ik zie niks! Typ gerust je vraag.">>]}
    ELSE IF len(user_message) > MAX_MESSAGE_LENGTH
    THEN {[NoResult(file) EXCEPT !.response = <<"Oei, dat is een lange tekst!">>]}
    ELSE LET state_data == get_session_state(file)
             current_state == Get(state_data, "state", "inactive")
             user_lang == Get(state_data, "language", "en")
             chat_history == Get(state_data, "chat_history", <<>>)
             r == [NoResult(file) EXCEPT !.loaded = TRUE]
         IN
         IF IsRaised(state_data)
         THEN {[r EXCEPT !.crashed = TRUE, !.response = <<"500 Internal Server Error">>]}
         ELSE IF current_state = "awaiting_name"
         THEN AwaitingName(state_data, chat_history, user_lang, user_message, t, client, r)
         ELSE IF current_state = "awaiting_email"
         THEN AwaitingEmail(state_data, chat_history, user_lang, user_message, t, client, method, r)
         ELSE OrderConfirmation(state_data, chat_history, user_message, t, client, r)

\* ------------------------------------------------------------------------
\* Requests
\* ------------------------------------------------------------------------
Messages ==
    {<<>>,
     <<"Ja">>,
     <<"nee">>,
     <<"order", WS, "123">>,
     <<WS, "a@b.co">>,
     <<"long@b.co">>}

NoTurn ==
    [kind |-> "none", message |-> <<>>, before |-> NoFile, at |-> 0,
     result |-> NoResult(NoFile)]

TypeOK ==
    /\ now \in 0..MaxClock
    /\ turns \in 0..MaxTurns
    /\ openai_client \in BOOLEAN
    /\ ESCALATION_METHOD \in {"email", "zendesk"}
    /\ last.kind \in {"none", "turn"}
    /\ wall \in 0..MaxWall
    /\ found.kind \in {"none", "retrieval"}

Init ==
    /\ stored = NoFile
    /\ now = 0
    /\ turns = 0
    /\ openai_client \in BOOLEAN
    /\ ESCALATION_METHOD \in {"email", "zendesk"}
    /\ last = NoTurn
    /\ session_cache = <<>>
    /\ wall = 0
    /\ collection = <<>>
    /\ found = NoRetrieval
    /\ AuxIdle

\* one request to /api/chat with a message of the given set, handled from
\* validation to the final save
ChatWith(messages, max_turns) ==
    /\ turns < max_turns
    /\ \E user_message \in messages :
         \E result \in chat(stored, now, user_message, openai_client, ESCALATION_METHOD) :
            /\ stored' = result.stored
            /\ last' = [kind |-> "turn", message |-> user_message, before |-> stored,
                        at |-> now, result |-> result]
    /\ turns' = turns + 1
    /\ UNCHANGED <<now, openai_client, ESCALATION_METHOD, session_cache, wall, collection, found,
                   aux>>

Chat == ChatWith(Messages, MaxTurns)

\* time passes between requests; the handler reads the clock only to stamp
\* or to age a pending order confirmation
Tick ==
    /\ now < MaxClock
    /\ stored # NoFile
    /\ "confirmation_timestamp" \in DOMAIN stored
    /\ now' = now + 1
    /\ UNCHANGED <<stored, turns, openai_client, ESCALATION_METHOD, last,
                   session_cache, wall, collection, found, aux>>

Next == Chat \/ Tick

Spec == Init /\ [][Next]_vars

\* ------------------------------------------------------------------------
\* Long conversations and long messages: the same handler, started in a
\* session that already holds several answered exchanges, with a message of
\* exactly MAX_MESSAGE_LENGTH characters among the requests
\* ------------------------------------------------------------------------
\* the history stored after k short messages were each answered from the
\* knowledge base
RECURSIVE PriorExchanges(_)
PriorExchanges(k) ==
    IF k = 0 THEN <<>>
    ELSE PriorExchanges(k - 1)
           \o <<Entry("user", IF k % 2 = 1 THEN <<"Ja">> ELSE <<"nee">>),
                Entry("assistant", <<"answer">>)>>

\* the session file after k such turns
AnsweredSession(k) ==
    [state |-> "inactive", language |-> "nl", chat_history |-> PriorExchanges(k)]

LongMessages ==
    {<<>>,
     <<"Ja">>,
     <<"order", WS, "123">>,
     <<"long@b.co">>,
     <<"word1000">>}

InitLong ==
    /\ stored \in {AnsweredSession(k) : k \in 3..5}
    /\ now = 0
    /\ turns = 0
    /\ openai_client = TRUE
    /\ ESCALATION_METHOD \in {"email", "zendesk"}
    /\ last = NoTurn
    /\ session_cache = <<>>
    /\ wall = 0
    /\ collection = <<>>
    /\ found = NoRetrieval
    /\ AuxIdle

ChatLong == ChatWith(LongMessages, MaxLongTurns)

NextLong == ChatLong \/ Tick

SpecLong == InitLong /\ [][NextLong]_vars

\* ------------------------------------------------------------------------
\* Retrieval on its own: the engine of a configured service answers
\* search queries; the vector search returns any list of at most
\* MaxResults chunks, nearest first
\* ------------------------------------------------------------------------
Digits == <<"0", "1", "2", "3", "4", "5", "6", "7", "8", "9">>

\* ids written by the ingestion (f"{source_id}_chunk_{chunk_index}") for
\* two sources, one with "_" in its name, and an id without the marker
ChunkId(kind, i) ==
    CASE kind = "faq"    -> <<"faq.md", "chunk", Digits[i]>>
      [] kind = "my_faq" -> <<"my", "faq.md", "chunk", Digits[i]>>
      [] OTHER           -> <<"legacy", Digits[i]>>

Kinds == {"faq", "my_faq", "legacy"}
Distances == {11, 12, 13}

Chunk(kind, i, distance) ==
    [doc |-> <<"text of">> \o ChunkId(kind, i), id |-> ChunkId(kind, i), distance |-> distance]

\* the result list of n chunks with the given sources and distances
RankedList(n, kinds, distances) == [i \in 1..n |-> Chunk(kinds[i], i, distances[i])]

\* nearest first
Sorted(n, distances) == \A i \in 1..(n - 1) : distances[i] <= distances[i + 1]

\* a few result lists for the runs in which time passes
ShortLists ==
    {<<>>,
     <<Chunk("faq", 1, 11)>>,
     <<Chunk("my_faq", 1, 12), Chunk("faq", 2, 13)>>}

RankedQueries == {"levertijd"}
CachedQueries == {"levertijd", "retour"}

\* a configured service that has answered no request and retrieved nothing
InitRetrieval ==
    /\ stored = NoFile
    /\ now = 0
    /\ turns = 0
    /\ openai_client = TRUE
    /\ ESCALATION_METHOD = "email"
    /\ last = NoTurn
    /\ session_cache = <<>>
    /\ wall = 0
    /\ found = NoRetrieval
    /\ AuxIdle

\* one pass through lines 575-640 for a search query
Retrieve ==
    /\ \E search_query \in DOMAIN collection :
         \E outcome \in (IF get_cached_context(session_cache, search_query, wall).context
                              # NoContext
                         THEN {NoOutcome}
                         ELSE RetrievalOutcomes(collection[search_query])) :
            LET result == retrieve(session_cache, wall, search_query, outcome) IN
            /\ session_cache' = result.cache
            /\ found' = [kind |-> "retrieval", query |-> search_query, at |-> wall,
                         entry |-> Get(session_cache, search_query, NoEntry),
                         outcome |-> outcome, result |-> result]
    /\ UNCHANGED <<stored, now, turns, openai_client, ESCALATION_METHOD, last, wall,
                   collection, aux>>

\* time passes between retrievals
Advance ==
    /\ wall + 100 <= MaxWall
    /\ wall' = wall + 100
    /\ UNCHANGED <<stored, now, turns, openai_client, ESCALATION_METHOD, last,
                   session_cache, collection, found, aux>>

\* the knowledge base is ingested again and a query finds other chunks
Reindex ==
    /\ \E search_query \in DOMAIN collection :
         \E results \in ShortLists :
            /\ results # collection[search_query]
            /\ collection' = [collection EXCEPT ![search_query] = results]
    /\ UNCHANGED <<stored, now, turns, openai_client, ESCALATION_METHOD, last,
                   session_cache, wall, found, aux>>

InitRanking ==
    /\ InitRetrieval
    /\ \E n \in 0..MaxResults :
         \E kinds \in [1..n -> Kinds] :
            \E distances \in [1..n -> Distances] :
               /\ Sorted(n, distances)
               /\ collection = [q \in RankedQueries |-> RankedList(n, kinds, distances)]

NextRanking == Retrieve

SpecRanking == InitRanking /\ [][NextRanking]_vars

InitCache ==
    /\ InitRetrieval
    /\ collection \in [CachedQueries -> ShortLists]

NextCache == Retrieve \/ Advance \/ Reindex

SpecCache == InitCache /\ [][NextCache]_vars

\* ------------------------------------------------------------------------
\* Properties
\* ------------------------------------------------------------------------
Turn == last.kind = "turn"
Res == last.result
\* the session as get_session_state returned it at the start of the turn
Loaded == get_session_state(last.before)
LoadedState == IF Res.loaded THEN Get(Loaded, "state", "inactive") ELSE "not_loaded"
HasKey(d, k) == k \in DOMAIN d

\* C1: the escalation collaborator is called in a turn exactly when the
\* session loaded for the turn is awaiting_email and the trimmed message is
\* a valid e-mail address; it is then called once, with the stored name,
\* that address, the stored question and the stored history, and the turn
\* leaves the session inactive with an empty history.
C1_EscalationOnValidEmail ==
    Turn =>
      LET trigger == /\ LoadedState = "awaiting_email"
                     /\ Len(strip(last.message)) = 1
                     /\ strip(last.message)[1] \in {"a@b.co", "long@b.co"}
      IN  /\ (Res.escalations # <<>>) <=> trigger
          /\ trigger =>
               /\ Len(Res.escalations) = 1
               /\ Res.escalations[1].name = Loaded.name
               /\ Res.escalations[1].email = strip(last.message)
               /\ Res.escalations[1].question = Loaded.question
               /\ Res.escalations[1].history = Loaded.chat_history
               /\ Res.escalations[1].method =
                    (IF ESCALATION_METHOD = "zendesk" THEN "create_ticket" ELSE "send_email")
               /\ stored.state = "inactive"
               /\ stored.chat_history = <<>>

C1_Witness ==
    /\ Turn
    /\ LoadedState = "awaiting_email"
    /\ Len(Res.escalations) = 1
    /\ Res.escalations[1].history # <<>>

\* C2: in a turn that reaches the answer pipeline the stored state after
\* the turn is awaiting_name exactly when the raw output of the synthesizer
\* contains __HUMAN_REQUESTED__, and the stored question is then the message
\* of the turn; otherwise the state stays inactive.
C2_HumanRequestStartsEscalation ==
    (Turn /\ Res.answered) =>
      LET human == \E i \in 1..Len(Res.raw) : Res.raw[i] = "__HUMAN_REQUESTED__" IN
      /\ (stored.state = "awaiting_name") <=> human
      /\ human => stored.question = last.message
      /\ ~human => stored.state = "inactive"

C2_Witness ==
    /\ Turn
    /\ Res.answered
    /\ Res.intent = "new_question"
    /\ Len(Res.raw) > 1
    /\ stored.state = "awaiting_name"

\* C3: from awaiting_name a giving_name message moves the session to
\* awaiting_email, stores the extracted name and keeps the question; and
\* whenever the stored state is awaiting_email a name and the triggering
\* question are present.
C3_NameThenEmail ==
    /\ (stored # NoFile /\ stored.state = "awaiting_email") =>
          /\ HasKey(stored, "name")
          /\ HasKey(stored, "question")
          /\ stored.question # <<>>
    /\ (Turn /\ LoadedState = "awaiting_name" /\ Res.intent = "giving_name") =>
          /\ stored.state = "awaiting_email"
          /\ Res.name_asked
          /\ Res.clean_name \in {last.message, <<"Wilco">>}
          /\ stored.name = Res.clean_name
          /\ stored.question = Loaded.question

C3_Witness ==
    /\ Turn
    /\ LoadedState = "awaiting_name"
    /\ Res.intent = "giving_name"
    /\ stored.name = <<"Wilco">>

\* C4: a declining message, from awaiting_name or from awaiting_email with
\* an invalid address, moves the session to inactive in the same turn,
\* leaves chat_history as it was and calls no escalation collaborator.
C4_DeclineKeepsHistory ==
    (Turn /\ LoadedState \in {"awaiting_name", "awaiting_email"} /\ Res.intent = "declining") =>
      /\ stored.state = "inactive"
      /\ stored.chat_history = Loaded.chat_history
      /\ Res.escalations = <<>>

C4_Witness ==
    /\ Turn
    /\ LoadedState = "awaiting_email"
    /\ Res.intent = "declining"
    /\ Len(stored.chat_history) >= 2

\* C5: a new_question message in awaiting_name (or a non-address in
\* awaiting_email) is processed as an inactive session with the same other
\* stored fields would process it.  Stated here for what the user sees: the
\* response is one that the inactive session gives to the same message, it
\* comes from the same collaborator, and no name is asked for.
C5_NewQuestionAsInactive ==
    (Turn /\ LoadedState \in {"awaiting_name", "awaiting_email"}
          /\ Res.intent = "new_question") =>
      /\ ~Res.name_asked
      /\ \E twin \in chat(Put(Loaded, "state", "inactive"), last.at, last.message,
                          openai_client, ESCALATION_METHOD) :
            /\ twin.response = Res.response
            /\ twin.lookups = Res.lookups
            /\ twin.answered = Res.answered

\* C6: from awaiting_email a message that is not a valid address and is
\* neither declining nor new_question is answered with the request to check
\* the address, and the stored session is left exactly as it was.
C6_RepromptLeavesSession ==
    (Turn /\ LoadedState = "awaiting_email") =>
      LET valid == /\ Len(strip(last.message)) = 1
                   /\ strip(last.message)[1] \in {"a@b.co", "long@b.co"}
      IN  /\ ~valid => Res.intent \in Intents
          /\ (~valid /\ Res.intent = "giving_name") =>
               /\ Res.response =
                    (IF Get(Loaded, "language", "en") = "nl"
                     THEN <<"Hmm, dat lijkt niet helemaal te kloppen. E-mailadres checken?">>
                     ELSE <<"Hmm, that doesn't look quite right. Double-check your email?">>)
               /\ ~Res.saved
               /\ stored = last.before
               /\ stored.state = "awaiting_email"
               /\ HasKey(stored, "name") /\ HasKey(stored, "question")

C6_Witness ==
    /\ Turn
    /\ LoadedState = "awaiting_email"
    /\ Res.intent = "giving_name"
    /\ stored.state = "awaiting_email"
    /\ Len(stored.chat_history) >= 2

\* C7: when the escalation collaborator returns null the turn answers with
\* the localized apology, and the session is reset to inactive with an empty
\* history exactly as after a successful delivery.
C7_FailedDeliveryApologises ==
    (Turn /\ Res.delivered # "none") =>
      /\ stored = [state |-> "inactive", chat_history |-> <<>>]
      /\ Res.delivered = "null" =>
           Res.response =
             (IF Get(Loaded, "language", "en") = "nl"
              THEN <<"Sorry, er ging iets mis bij het versturen van je bericht.">>
              ELSE <<"I'm sorry, something went wrong sending your message.">>)

C7_Witness ==
    /\ Turn
    /\ Res.delivered = "null"
    /\ Len(Res.escalations) = 1
    /\ HasKey(Loaded, "name")

\* C8: the response text and every assistant entry of the stored
\* chat_history never contain __UNKNOWN__ or __HUMAN_REQUESTED__.
C8_NoSentinelLeak ==
    Turn =>
      LET clean(text) == \A i \in 1..Len(text) :
                            text[i] \notin {"__UNKNOWN__", "__HUMAN_REQUESTED__"}
          history == Get(get_session_state(stored), "chat_history", <<>>)
      IN  /\ clean(Res.response)
          /\ \A i \in 1..Len(history) :
                history[i].role = "assistant" => clean(history[i].content)

\* C9: a shipment lookup is made only in a turn whose loaded session has a
\* pending order confirmation at most 5 minutes old and whose message is
\* affirmative; an affirmative message without a pending confirmation goes
\* through normal processing.
C9_LookupNeedsFreshConfirmation ==
    Turn =>
      /\ Res.lookups # <<>> =>
           /\ Res.loaded
           /\ Get(Loaded, "awaiting_order_confirmation", FALSE)
           /\ HasKey(Loaded, "confirmation_timestamp")
           /\ last.at - Loaded.confirmation_timestamp <= 5
           /\ IsAffirmative(last.message)
      /\ (LoadedState = "inactive" /\ IsAffirmative(last.message)
            /\ ~HasKey(Loaded, "awaiting_order_confirmation")) =>
           /\ Res.lookups = <<>>
           /\ Res.answered \/ order_match(last.message) # "none"

C9_Witness ==
    /\ Turn
    /\ Res.lookups = <<"123">>
    /\ last.at - Loaded.confirmation_timestamp = 5

\* C10: with a confirmation set at time T in an inactive session, an
\* affirmative message less than 5 minutes after T makes a shipment lookup;
\* more than 5 minutes after T it makes none, the sub-state is cleared and
\* the message is processed as a session without the sub-state would.
C10_ConfirmationTimeout ==
    (Turn /\ LoadedState = "inactive" /\ IsAffirmative(last.message)
          /\ Get(Loaded, "awaiting_order_confirmation", FALSE)
          /\ HasKey(Loaded, "confirmation_timestamp")) =>
      LET age == last.at - Loaded.confirmation_timestamp
          fresh == [k \in (DOMAIN Loaded) \ {"awaiting_order_confirmation",
                                             "pending_order_id",
                                             "confirmation_timestamp"} |-> Loaded[k]]
      IN  /\ age < 5 => Res.lookups = <<Loaded.pending_order_id>>
          /\ age > 5 =>
               /\ Res.lookups = <<>>
               /\ \/ ~HasKey(stored, "awaiting_order_confirmation")
                  \/ order_match(last.message) # "none"
               /\ \E other \in chat(fresh, last.at, last.message,
                                    openai_client, ESCALATION_METHOD) :
                     /\ other.response = Res.response
                     /\ other.stored = Res.stored
                     /\ other.raw = Res.raw

C10_Witness ==
    /\ Turn
    /\ LoadedState = "inactive"
    /\ IsAffirmative(last.message)
    /\ HasKey(Loaded, "confirmation_timestamp")
    /\ last.at - Loaded.confirmation_timestamp > 5
    /\ Res.answered

\* C11: with a fresh confirmation pending in a session that is inactive at
\* load, an affirmative reply makes exactly one shipment lookup, for the
\* stored pending_order_id, and the turn leaves no flag, id or timestamp in
\* the session whether the lookup succeeded or failed; a negative reply
\* makes no lookup, leaves no flag, id or timestamp either, and is answered
\* with the request for the correct order number.
C11_ConfirmationReply ==
    (Turn /\ LoadedState = "inactive"
          /\ Get(Loaded, "awaiting_order_confirmation", FALSE)
          /\ HasKey(Loaded, "confirmation_timestamp")
          /\ last.at - Loaded.confirmation_timestamp <= 5) =>
      LET words == {Lower(last.message)[i] : i \in 1..Len(last.message)}
          yes == words \cap {"ja", "yes", "correct", "klopt", "inderdaad"} # {}
          no == words \cap {"nee", "no", "nope", "incorrect", "verkeerd"} # {}
          gone == /\ ~HasKey(stored, "awaiting_order_confirmation")
                  /\ ~HasKey(stored, "pending_order_id")
                  /\ ~HasKey(stored, "confirmation_timestamp")
                  /\ Res.saved
      IN  /\ yes => /\ Res.lookups = <<Loaded.pending_order_id>>
                    /\ Res.shipment \in {"success", "failure"}
                    /\ gone
          /\ (no /\ ~yes) =>
                /\ Res.lookups = <<>>
                /\ gone
                /\ Res.response = <<"Oke, geen probleem! Wat is je correcte bestelnummer?">>

C11_Witness ==
    /\ Turn
    /\ LoadedState = "inactive"
    /\ Res.lookups = <<"123">>
    /\ Res.shipment = "failure"
    /\ ~HasKey(stored, "pending_order_id")

\* the turn of `last` reached the order detection of lines 640-655: the
\* session was loaded, the name / e-mail dialogue did not return (the
\* session was inactive, or the message was classified new_question), and
\* no fresh pending confirmation took the message as its yes / no reply
ReachedOrderDetection ==
    LET words == {Lower(last.message)[i] : i \in 1..Len(last.message)}
        yesno == words \cap {"ja", "yes", "correct", "klopt", "inderdaad",
                             "nee", "no", "nope", "incorrect", "verkeerd"} # {}
        fresh == /\ LoadedState = "inactive"
                 /\ Get(Loaded, "awaiting_order_confirmation", FALSE)
                 /\ HasKey(Loaded, "confirmation_timestamp")
                 /\ last.at - Loaded.confirmation_timestamp <= 5
    IN  /\ Turn
        /\ Res.loaded
        /\ LoadedState = "inactive" \/ Res.intent = "new_question"
        /\ ~(fresh /\ yesno)

\* everything C12 says about such a turn except the primary state
OrderDetectionEffect ==
    LET order_id == order_match(last.message) IN
    /\ Get(stored, "awaiting_order_confirmation", FALSE) = TRUE
    /\ Get(stored, "pending_order_id", "None") = order_id
    /\ Get(stored, "confirmation_timestamp", -1) = last.at
    /\ Res.response = <<"Wil je de status opvragen van zending", order_id, "?">>
    /\ ~Res.answered
    /\ Res.lang = "none"
    /\ Res.lookups = <<>>
    /\ Res.escalations = <<>>
    /\ Get(stored, "chat_history", <<>>) = Get(Loaded, "chat_history", <<>>)

\* C12 as stated: a turn that reaches the order detection with a message
\* holding an order reference stores the flag, the digits and the current
\* time, answers with the yes/no question naming the id, calls no answer
\* pipeline and changes neither the chat history nor the primary state.
C12_OrderDetectionKeepsState ==
    (ReachedOrderDetection /\ order_match(last.message) # "none") =>
      /\ OrderDetectionEffect
      /\ Get(stored, "state", "inactive") = LoadedState

\* C12, amended: such a turn stores the flag, the digits and the current
\* time, answers with the yes/no question naming the id, calls no answer
\* pipeline and leaves the chat history as loaded; the primary state after
\* the turn is inactive, which is the loaded state for an inactive session
\* and a reset for an awaiting_name / awaiting_email session whose message
\* was classified new_question.
C12_OrderDetection ==
    (ReachedOrderDetection /\ order_match(last.message) # "none") =>
      /\ OrderDetectionEffect
      /\ Get(stored, "state", "inactive") = "inactive"
      /\ LoadedState # "inactive" => Res.intent = "new_question"

C12_Witness ==
    /\ Turn
    /\ order_match(last.message) = "123"
    /\ LoadedState = "awaiting_name"
    /\ Res.intent = "new_question"
    /\ HasKey(stored, "confirmation_timestamp")
    /\ stored.confirmation_timestamp = last.at
    /\ Get(stored, "chat_history", <<>>) # <<>>

\* the order-confirmation sub-state of a session: the flag, the pending id
\* and the timestamp, each only if stored
SubState(d) ==
    [k \in (DOMAIN d) \cap {"awaiting_order_confirmation", "pending_order_id",
                            "confirmation_timestamp"} |-> d[k]]

\* a fresh confirmation is pending in the session loaded for the turn
FreshPending ==
    /\ Turn
    /\ Res.loaded
    /\ Get(Loaded, "awaiting_order_confirmation", FALSE)
    /\ HasKey(Loaded, "confirmation_timestamp")
    /\ last.at - Loaded.confirmation_timestamp <= 5

\* the message of the turn matches neither keyword set
NeitherYesNorNo ==
    {Lower(last.message)[i] : i \in 1..Len(last.message)}
       \cap {"ja", "yes", "correct", "klopt", "inderdaad",
             "nee", "no", "nope", "incorrect", "verkeerd"} = {}

\* C13 as stated, for the turns that consult the pending confirmation (the
\* session is inactive at load): with a fresh confirmation pending and a
\* message that matches neither keyword set, the flag, pending id and
\* timestamp are the same after the turn as before.
C13_NoMatchKeepsSubState ==
    (FreshPending /\ LoadedState = "inactive" /\ NeitherYesNorNo) =>
      SubState(stored) = SubState(Loaded)

\* C13, amended: with a fresh confirmation pending in a session inactive at
\* load and a message that matches neither keyword set, the flag, pending
\* id and timestamp are the same after the turn as before when the message
\* holds no order reference; when it holds one, the sub-state is replaced
\* by the flag, the id found in the message and the current time.
C13_NoMatchNoOrderKeepsSubState ==
    (FreshPending /\ LoadedState = "inactive" /\ NeitherYesNorNo) =>
      IF order_match(last.message) = "none"
      THEN SubState(stored) = SubState(Loaded)
      ELSE SubState(stored) = [awaiting_order_confirmation |-> TRUE,
                               pending_order_id |-> order_match(last.message),
                               confirmation_timestamp |-> last.at]

C13_Witness ==
    /\ FreshPending
    /\ LoadedState = "inactive"
    /\ NeitherYesNorNo
    /\ Res.answered
    /\ HasKey(stored, "confirmation_timestamp")
    /\ stored.confirmation_timestamp < last.at
    /\ stored.pending_order_id = "123"

\* C14: the order-confirmation sub-state is independent of the name /
\* e-mail state: a turn of the name / e-mail dialogue that changes the
\* primary state (to awaiting_email, or back to inactive through decline,
\* new_question or a completed escalation) and a turn that enters
\* awaiting_name leave the flag, pending id and timestamp as loaded, and a
\* turn that handles a yes / no reply to a fresh confirmation leaves the
\* primary state as loaded.
C14_SubStateIndependent ==
    Turn =>
      /\ (Res.loaded /\ LoadedState \in {"awaiting_name", "awaiting_email"}
            /\ Get(stored, "state", "inactive") # LoadedState
            /\ Res.lookups = <<>>
            /\ order_match(last.message) = "none") =>
           SubState(stored) = SubState(Loaded)
      /\ (FreshPending /\ LoadedState = "inactive" /\ NeitherYesNorNo
            /\ order_match(last.message) = "none"
            /\ Get(stored, "state", "inactive") = "awaiting_name") =>
           SubState(stored) = SubState(Loaded)
      /\ (FreshPending /\ LoadedState = "inactive" /\ ~NeitherYesNorNo) =>
           Get(stored, "state", "inactive") = LoadedState

\* C17: no turn returns raw internal error text to the user, and no turn
\* stores such text as an assistant entry of the chat history; the
\* configuration error string of the answer synthesizer is such a text.
C17_NoRawErrorText ==
    LET ErrorText == "Error: OpenAI API Key invalid or client not initialized."
        history == Get(stored, "chat_history", <<>>)
    IN  Turn =>
          /\ ~Contains(Res.response, ErrorText)
          /\ \A i \in 1..Len(history) :
                history[i].role = "assistant" => ~Contains(history[i].content, ErrorText)

\* C15: the stored chat_history never holds more than 10 entries, and a
\* turn that appends to it stores the last 10 entries of the loaded
\* history followed by the user message and the response returned to the
\* user, in that order.
C15_HistoryBounded ==
    LET history == Get(stored, "chat_history", <<>>)
        previous == Get(Loaded, "chat_history", <<>>)
        full == previous \o <<[role |-> "user", content |-> last.message],
                              [role |-> "assistant", content |-> Res.response]>>
        n == Len(full)
    IN  /\ Len(history) <= 10
        /\ (Turn /\ Res.answered) =>
             /\ Len(history) = (IF n < 10 THEN n ELSE 10)
             /\ \A i \in 1..Len(history) : history[i] = full[n - Len(history) + i]

C15_Witness ==
    /\ Turn
    /\ Res.answered
    /\ Len(Get(Loaded, "chat_history", <<>>)) = 10
    /\ Len(stored.chat_history) = 10
    /\ stored.chat_history[10].content = Res.response
    /\ stored.chat_history[1] # Loaded.chat_history[1]

\* C16: an empty message and a message of more than 1000 characters are
\* answered with the validation message, the session is neither loaded nor
\* saved, and no classifier, answer synthesis, shipment lookup or
\* escalation is called; every other message, a message of exactly 1000
\* characters included, loads the session and is processed.
C16_Validation ==
    Turn =>
      IF last.message = <<>> \/ len(last.message) > 1000
      THEN /\ Res.response = (IF last.message = <<>>
                              THEN <<"He, ik zie niks! Typ gerust je vraag.">>
                              ELSE <<"Oei, dat is een lange tekst!">>)
           /\ ~Res.loaded
           /\ ~Res.saved
           /\ stored = last.before
           /\ Res.intent = "none"
           /\ Res.lang = "none"
           /\ ~Res.name_asked
           /\ ~Res.answered
           /\ ~Res.helpful
           /\ Res.lookups = <<>>
           /\ Res.escalations = <<>>
      ELSE /\ Res.loaded
           /\ Res.response \notin {<<"He, ik zie niks! Typ gerust je vraag.">>,
                                   <<"Oei, dat is een lange tekst!">>}

C16_Witness ==
    /\ Turn
    /\ len(last.message) = 1000
    /\ Res.loaded
    /\ Res.answered
    /\ Res.saved

\* ------------------------------------------------------------------------
\* Properties of the retrieval
\* ------------------------------------------------------------------------
Retrieved == found.kind = "retrieval"
\* the retrieval of `found` embedded the query and searched the collection
Searched == Retrieved /\ found.outcome.search = "ok"
Candidates == found.outcome.results

\* C18: every chunk of a context built by a search has a distance of at
\* most 1.2 (12 tenths), and when no candidate is that near the context is
\* empty although candidates exist.
C18_DistanceThreshold ==
    Searched =>
      LET near == {i \in 1..Len(Candidates) : Candidates[i].distance <= 12}
          context == found.result.context
      IN  /\ \A c \in 1..Len(context) : \E i \in near : Candidates[i].doc = context[c]
          /\ near = {} => context = <<>>
          /\ near # {} => context # <<>>

C18_Witness ==
    /\ Searched
    /\ \E i \in 1..Len(Candidates) :
          /\ Candidates[i].distance = 12
          /\ Candidates[i].doc = found.result.context[Len(found.result.context)]
    /\ \E i \in 1..Len(Candidates) : Candidates[i].distance = 13
    /\ Len(found.result.context) = 3

\* the candidates a walk in distance order admits: within the threshold,
\* fewer than 2 nearer candidates of the same source within the threshold,
\* and fewer than 5 such candidates before it
Admitted ==
    LET near == {i \in 1..Len(Candidates) : Candidates[i].distance <= 12}
        source(i) == SourceOf(Candidates[i].id)
        eligible == {i \in near :
                        Cardinality({j \in near : j < i /\ source(j) = source(i)}) < 2}
    IN  {i \in eligible : Cardinality({j \in eligible : j < i}) < 5}

\* C19: a context built by a search holds at most 5 chunks and at most 2 of
\* any source, and its chunks are exactly the candidates that the walk
\* admits, in distance order.
C19_Diversity ==
    Searched =>
      LET context == found.result.context
          ids == found.result.ids
      IN  /\ Len(context) <= 5
          /\ Len(ids) = Len(context)
          /\ \A i \in 1..Len(ids) :
                Cardinality({j \in 1..Len(ids) : SourceOf(ids[j]) = SourceOf(ids[i])}) <= 2
          /\ Len(context) = Cardinality(Admitted)
          /\ \A i \in Admitted :
                LET position == Cardinality({j \in Admitted : j < i}) + 1
                IN  /\ context[position] = Candidates[i].doc
                    /\ ids[position] = Candidates[i].id

C19_Witness ==
    /\ Searched
    /\ Len(Candidates) = 6
    /\ \A i \in 1..6 : Candidates[i].distance <= 12
    /\ Len(found.result.context) = 5
    /\ 3 \notin Admitted
    /\ 6 \in Admitted

\* C20: a retrieval for a query whose cache entry is younger than 300
\* seconds returns the stored context, calls neither the embedding nor the
\* vector search and leaves the entry in place; with an entry of 300
\* seconds or more the old entry is removed and the embedding and (unless
\* the embedding call failed) the vector search are called; a context is
\* served from the cache only when it was stored less than 300 seconds
\* earlier.
C20_CacheTtl ==
    Retrieved =>
      LET entry == found.entry
          present == entry # NoEntry
          age == found.at - entry.timestamp
          result == found.result
          q == found.query
      IN  /\ (present /\ age < 300) =>
                /\ result.hit
                /\ result.context = entry.context
                /\ result.embeddings = 0
                /\ result.searches = 0
                /\ q \in DOMAIN session_cache
                /\ session_cache[q] = entry
          /\ (present /\ age >= 300) =>
                /\ ~result.hit
                /\ result.embeddings = 1
                /\ found.outcome.embedding = "ok" => result.searches = 1
                /\ q \in DOMAIN session_cache =>
                     /\ session_cache[q].timestamp = found.at
                     /\ session_cache[q].context = result.context
                     /\ Searched
          /\ result.hit => (present /\ age < 300)
          /\ ~present => ~result.hit /\ result.embeddings = 1

C20_Witness ==
    /\ Retrieved
    /\ found.entry # NoEntry
    /\ found.at - found.entry.timestamp = 300
    /\ ~found.result.hit
    /\ found.query \in DOMAIN session_cache
    /\ session_cache[found.query].context # found.entry.context

\* ------------------------------------------------------------------------
\* The whole of RagEngine.get_answer (rag_engine.py lines 503-910): the
\* search query, the retrieval and the synthesis, with the calls it makes
\* ------------------------------------------------------------------------

\* result.split(','): the pieces between the commas, piece being the one
\* under construction
RECURSIVE SplitComma(_, _)
SplitComma(text, piece) ==
    IF text = <<>> THEN <<piece>>
    ELSE IF Head(text) = "," THEN <<piece>> \o SplitComma(Tail(text), <<>>)
    ELSE SplitComma(Tail(text), Append(piece, Head(text)))

NonEmpty(text) == text # <<>>

\* str.upper() on one token
UpperTok(t) ==
    CASE t = "none" -> "NONE"
      [] t = "None" -> "NONE"
      [] OTHER      -> t

Upper(text) == [i \in 1..Len(text) |-> UpperTok(text[i])]

\* _extract_conversation_entities: the products, types and topics of the
\* conversation, each a text
extract_conversation_entities(chat_history, client, r) ==
    IF chat_history = <<>> \/ ~client THEN <<>>
    ELSE IF r.exc THEN <<>>
    ELSE IF r.content # <<>> /\ Upper(strip(r.content)) # <<"NONE">>
    THEN LET pieces == SplitComma(r.content, <<>>) IN
         SelectSeq([i \in 1..Len(pieces) |-> strip(pieces[i])], NonEmpty)
    ELSE <<>>

reformulate_query_Propagates(query, chat_history, client, r) ==
    IF ~client THEN query
    ELSE IF r.exc THEN <<"Traceback">>
    ELSE IF r.content # <<>> THEN strip(r.content)
    ELSE query

\* _reformulate_query: the standalone form of a follow-up question
reformulate_query(query, chat_history, client, r) ==
    IF ~client THEN query
    ELSE IF r.exc THEN query
    ELSE IF r.content # <<>> THEN strip(r.content)
    ELSE query

\* entity.lower() in search_query.lower()
Within(entity, search_query) ==
    \E i \in 0..(Len(search_query) - Len(entity)) :
       \A j \in 1..Len(entity) : Lower(search_query)[i + j] = Lower(entity)[j]

\* lines 550-553: every entity the query does not hold yet is appended
RECURSIVE AppendEntities(_, _)
AppendEntities(search_query, entities) ==
    IF entities = <<>> THEN search_query
    ELSE AppendEntities(IF Within(Head(entities), search_query)
                        THEN search_query
                        ELSE search_query \o <<WS>> \o Head(entities),
                        Tail(entities))

\* lines 557-573: the Dutch translation of an English query, or the search
\* query so far when the translation fails
translate_query(search_query, r) ==
    IF r.exc THEN search_query ELSE strip(r.content)

\* the branch of lines 828-883: an answer is synthesized unless there is
\* neither a context nor a conversation
NeedsSynthesis_Always(context, chat_history) == TRUE

NeedsSynthesis(context, chat_history) == context # NoContext \/ chat_history # <<>>

\* no reply: the call was not made
NoReply == [exc |-> FALSE, content |-> <<"not called">>]

\* lines 540-573: the search query and the completions made for it, given
\* the replies to the entity, the reformulation and the translation call;
\* translated is the text handed to the translation call (line 566)
SearchQuery(query, chat_history, language, client, re, rr, rt) ==
    LET entities == extract_conversation_entities(chat_history, client, re)
        reformulated == IF chat_history # <<>>
                        THEN reformulate_query(query, chat_history, client, rr)
                        ELSE query
        standalone == AppendEntities(reformulated,
                                     IF chat_history # <<>> THEN entities ELSE <<>>)
    IN  [search_query |-> IF language = "en" THEN translate_query(standalone, rt)
                          ELSE standalone,
         translated   |-> IF language = "en" THEN query ELSE <<>>,
         entities     |-> IF chat_history # <<>> THEN entities ELSE <<>>,
         reformulated |-> reformulated,
         standalone   |-> standalone,
         completions  |-> (IF chat_history # <<>> THEN <<"entities", "reformulate">> ELSE <<>>)
                          \o (IF language = "en" THEN <<"translate">> ELSE <<>>)]

\* get_answer: the text returned, the cache left behind and the calls made.
\* rag: RAG_DEPENDENCIES_LOADED and self.collection; o: the replies of the
\* completion endpoint and the outcome of the retrieval
answer(cache, t, rag, query, chat_history, language, client, o) ==
    LET none == [text |-> <<>>, cache |-> cache, search_query |-> <<>>,
                 context |-> NoContext, hit |-> FALSE, embeddings |-> 0, searches |-> 0,
                 completions |-> <<>>, entities |-> <<>>, reformulated |-> <<>>,
                 standalone |-> <<>>, translated |-> <<>>,
                 searched |-> FALSE]
    IN
    IF ~client
    THEN [none EXCEPT !.text = get_answer(query, chat_history, language, client, FALSE, o.rs)]
    ELSE
    LET sq == SearchQuery(query, chat_history, language, client, o.re, o.rr, o.rt)
        got == retrieve(cache, t, sq.search_query, o.outcome)
        looked == IF rag
                  THEN [none EXCEPT !.cache = got.cache,
                                    !.search_query = sq.search_query,
                                    !.context = got.context,
                                    !.hit = got.hit,
                                    !.embeddings = got.embeddings,
                                    !.searches = got.searches,
                                    !.completions = sq.completions,
                                    !.entities = sq.entities,
                                    !.reformulated = sq.reformulated,
                                    !.standalone = sq.standalone,
                                    !.translated = sq.translated,
                                    !.searched = TRUE]
                  ELSE none
    IN  [looked EXCEPT
            !.text = get_answer(query, chat_history, language, client,
                                looked.context # NoContext, o.rs),
            !.completions = IF NeedsSynthesis(looked.context, chat_history)
                            THEN Append(looked.completions, "synthesis")
                            ELSE looked.completions]

\* ------------------------------------------------------------------------
\* The answer engine on its own: get_answer is called with questions in
\* either language, with and without a conversation, against a store that
\* is absent, empty, or holds a near or a far chunk for every search query
\* ------------------------------------------------------------------------
AnswerQueries == {<<"delivery">>}

AnswerHistories ==
    {<<>>,
     <<[role |-> "user", content |-> <<"cacao">>],
       [role |-> "assistant", content |-> <<"answer">>]>>}

EntityReplies == {Raised, Reply(<<"none">>), Reply(<<"Cacao", ",", WS>>)}
ReformulateReplies == {Raised, Reply(<<>>), Reply(<<WS, "levertijd", WS, "cacao", WS>>)}
TranslationReplies == {Raised, Reply(<<"levertijd", WS>>)}
SynthesisReplies == {Raised, Reply(<<"answer">>)}

\* every search query the questions, entities, reformulations and
\* translations above can lead to
SearchKeys ==
    {<<"levertijd">>, <<"delivery">>, <<"levertijd", WS, "cacao">>,
     <<"delivery", WS, "Cacao">>}

\* self.collection is None: ChromaDB could not be opened
NoCollection == <<>>

AnswerCollections ==
    {NoCollection}
    \cup {[k \in SearchKeys |-> results] :
             results \in {<<>>, <<Chunk("faq", 1, 11)>>, <<Chunk("faq", 1, 13)>>}}

InitAnswer ==
    /\ stored = NoFile
    /\ now = 0
    /\ turns = 0
    /\ openai_client \in BOOLEAN
    /\ ESCALATION_METHOD = "email"
    /\ last = NoTurn
    /\ session_cache = <<>>
    /\ wall = 0
    /\ collection \in AnswerCollections
    /\ found = NoRetrieval
    /\ asked = NoAnswer
    /\ probe = NoProbe
    /\ chunking = NoChunking
    /\ knowledge_base = NoFiles
    /\ chroma = NoDocuments
    /\ ingested = NoIngestion
    /\ requests = NoRequests
    /\ workers = NoWorkers
    /\ carrier = NoCarrier

\* one call of get_answer; every reply is drawn only where the call is made
Answer ==
    /\ \E query \in AnswerQueries, chat_history \in AnswerHistories, language \in Languages :
         LET rag == collection # NoCollection
             searching == openai_client /\ rag
         IN
         \E re \in (IF searching /\ chat_history # <<>> THEN EntityReplies ELSE {NoReply}),
            rr \in (IF searching /\ chat_history # <<>> THEN ReformulateReplies ELSE {NoReply}),
            rt \in (IF searching /\ language = "en" THEN TranslationReplies ELSE {NoReply}) :
            LET sq == SearchQuery(query, chat_history, language, openai_client, re, rr, rt)
                                                                              .search_query
            IN
            \E outcome \in (IF searching
                               /\ get_cached_context(session_cache, sq, wall).context
                                      = NoContext
                            THEN RetrievalOutcomes(Get(collection, sq, <<>>))
                            ELSE {NoOutcome}) :
               LET context == IF searching
                              THEN retrieve(session_cache, wall, sq, outcome).context
                              ELSE NoContext
               IN
               \E rs \in (IF openai_client /\ NeedsSynthesis(context, chat_history)
                          THEN SynthesisReplies ELSE {NoReply}) :
                  LET o == [re |-> re, rr |-> rr, rt |-> rt, outcome |-> outcome, rs |-> rs]
                      result == answer(session_cache, wall, rag, query, chat_history,
                                       language, openai_client, o)
                  IN
                  /\ session_cache' = result.cache
                  /\ asked' = [kind |-> "answer", query |-> query,
                               chat_history |-> chat_history, language |-> language,
                               client |-> openai_client, rag |-> rag, o |-> o,
                               result |-> result]
    /\ UNCHANGED <<stored, now, turns, openai_client, ESCALATION_METHOD, last, wall,
                   collection, found, probe, chunking, knowledge_base, chroma,
                   ingested, requests, workers, carrier>>

NextAnswer == Answer

SpecAnswer == InitAnswer /\ [][NextAnswer]_vars

\* ------------------------------------------------------------------------
\* Properties of get_answer
\* ------------------------------------------------------------------------
Asked == asked.kind = "answer"

\* the most recent call ran with a configured client, found no context and
\* had no conversation to fall back on
NothingToAnswerFrom ==
    /\ Asked
    /\ asked.client
    /\ asked.result.context = NoContext
    /\ asked.chat_history = <<>>

\* C21 as stated: get_answer with an empty retrieved context and an empty
\* chat history returns exactly __UNKNOWN__ and makes no LLM completion call
\* during that invocation, in either conversation language.
C21_NoCompletionWhenUnknown ==
    NothingToAnswerFrom =>
        /\ asked.result.text = <<"__UNKNOWN__">>
        /\ asked.result.completions = <<>>

\* C21 amended: get_answer with an empty retrieved context and an empty
\* chat history returns exactly __UNKNOWN__ and makes no answer-synthesis
\* completion call; the only completion call of such an invocation is the
\* translation of an English query for the search, made when the vector
\* store is available, and a Dutch invocation makes none at all.
C21_NoSynthesisWhenUnknown ==
    NothingToAnswerFrom =>
        /\ asked.result.text = <<"__UNKNOWN__">>
        /\ asked.result.completions =
              (IF asked.language = "en" /\ asked.rag THEN <<"translate">> ELSE <<>>)

\* an English question without context or conversation was translated for
\* the search and answered with the sentinel
C21_Witness ==
    /\ NothingToAnswerFrom
    /\ asked.language = "en"
    /\ asked.result.searched
    /\ asked.result.completions = <<"translate">>
    /\ asked.result.text = <<"__UNKNOWN__">>

\* the most recent call searched the vector store for a question
Searching == Asked /\ asked.result.searched

\* C22: a failing external call never propagates out of its component.  A
\* failing reformulation returns the original query unchanged, a failing
\* entity extraction returns the empty list, a failing translation leaves
\* the search query as it was, a failing embedding or vector search yields
\* an empty context and the call goes on to the sentinel or to the
\* synthesis, and a failing synthesis returns the localized apology.
C22_FailuresContained ==
    /\ Searching /\ asked.o.rr.exc => asked.result.reformulated = asked.query
    /\ Searching /\ asked.o.re.exc => asked.result.entities = <<>>
    /\ Searching /\ asked.o.rt.exc => asked.result.search_query = asked.result.standalone
    /\ Searching /\ "raise" \in {asked.o.outcome.embedding, asked.o.outcome.search} =>
          /\ asked.result.context = <<>>
          /\ IF asked.chat_history = <<>>
             THEN asked.result.text = <<"__UNKNOWN__">>
             ELSE asked.result.completions[Len(asked.result.completions)] = "synthesis"
    /\ Asked /\ asked.o.rs.exc =>
          asked.result.text =
             (IF asked.language = "en" THEN <<"Oops, something went wrong on my end!">>
              ELSE <<"Oeps, er ging even iets mis aan mijn kant!">>)

\* a follow-up question for which the entity extraction, the reformulation,
\* the embedding and the synthesis all failed: the question itself was
\* searched and the apology was returned
C22_Witness ==
    /\ Searching
    /\ asked.chat_history # <<>>
    /\ asked.o.re.exc /\ asked.o.rr.exc /\ asked.o.rs.exc
    /\ asked.o.outcome.embedding = "raise"
    /\ asked.result.search_query = asked.query
    /\ asked.result.embeddings = 1 /\ asked.result.searches = 0
    /\ asked.result.text = <<"Oeps, er ging even iets mis aan mijn kant!">>

\* ------------------------------------------------------------------------
\* Properties of the session fields
\* ------------------------------------------------------------------------

\* C25: language is sticky.  Once a language has been detected and stored,
\* the session stored after every later turn carries a language value, and
\* the value differs from the one loaded only when the turn ran the
\* language detection; no turn removes it.
C25_LanguageSticky ==
    (Turn /\ HasKey(Loaded, "language")) =>
        /\ HasKey(stored, "language")
        /\ (Res.lang = "none" => stored["language"] = Loaded["language"])

\* ------------------------------------------------------------------------
\* Requests for a session whose file is missing or damaged
\* ------------------------------------------------------------------------

SessionFiles == {NoFile} \cup {Unreadable(error) : error \in LoadErrors}

InitSession ==
    /\ stored \in SessionFiles
    /\ now = 0
    /\ turns = 0
    /\ openai_client \in BOOLEAN
    /\ ESCALATION_METHOD \in {"email", "zendesk"}
    /\ last = NoTurn
    /\ session_cache = <<>>
    /\ wall = 0
    /\ collection = <<>>
    /\ found = NoRetrieval
    /\ AuxIdle

ChatDamaged == ChatWith(Messages, MaxDamagedTurns)

NextSession == ChatDamaged \/ Tick

SpecSession == InitSession /\ [][NextSession]_vars

\* C24: a session with no stored file, or whose file is unreadable or not
\* valid JSON, is loaded as the default {state: inactive} and the turn is
\* processed normally: it does what a turn on a stored {state: inactive}
\* does with the same message.
C24_UnreadableSessionDefaults ==
    (Turn /\ Res.loaded /\ (last.before = NoFile \/ IsUnreadable(last.before))) =>
        /\ ~Res.crashed
        /\ \E twin \in chat([state |-> "inactive"], last.at, last.message,
                            openai_client, ESCALATION_METHOD) :
              /\ [twin EXCEPT !.stored = NoFile] = [Res EXCEPT !.stored = NoFile]
              /\ Res.saved => twin.stored = Res.stored

\* ------------------------------------------------------------------------
\* Session ids (app.py lines 366-408).  A string is a sequence of
\* characters; a character is a string of length one.
\* ------------------------------------------------------------------------

\* characters of the classes a-z, A-Z and 0-9 and of none of them
LetterChars == {"a", "b", "c", "e", "o", "m", "u", "s", "r", "x", "Z"}
DigitChars == {"7"}
OtherChars == {"/", ".", "@", "%", "+", "\n", " "}

\* the class [^a-zA-Z0-9_\-] of the substitution
Removed(c) == c \notin LetterChars \cup DigitChars \cup {"_", "-"}

Kept(c) == ~Removed(c)

\* the slice [:100]
Slice100_Whole(text) == text

Slice100(text) == SubSeq(text, 1, IF Len(text) < 100 THEN Len(text) ELSE 100)

\* re.sub(r'[^a-zA-Z0-9_\-]', '', session_id)[:100]
sanitize_session_id(session_id) == Slice100(SelectSeq(session_id, Kept))

SESSION_DIR == "sessions"

\* os.path.join(SESSION_DIR, f"{safe_id}.json") of get_session_state and of
\* save_session_state
session_path(session_id) ==
    <<SESSION_DIR, "/">> \o sanitize_session_id(session_id) \o <<".json">>

\* ------------------------------------------------------------------------
\* The sanitizer on its own: session ids made of up to MaxRuns runs of one
\* character, a run being short or long enough for three of them to pass
\* the limit of 100 characters
\* ------------------------------------------------------------------------
RunChars == {"a", "7", "_", "-", "/", "."}
RunLengths == {1, 60}

RECURSIVE Expand(_)
Expand(runs) ==
    IF runs = <<>> THEN <<>>
    ELSE [i \in 1..Head(runs)[2] |-> Head(runs)[1]] \o Expand(Tail(runs))

InitSanitize ==
    /\ stored = NoFile
    /\ now = 0
    /\ turns = 0
    /\ openai_client = TRUE
    /\ ESCALATION_METHOD = "email"
    /\ last = NoTurn
    /\ session_cache = <<>>
    /\ wall = 0
    /\ collection = <<>>
    /\ found = NoRetrieval
    /\ asked = NoAnswer
    /\ \E k \in 0..MaxRuns :
         \E runs \in [1..k -> RunChars \X RunLengths] :
            probe = [kind |-> "session_id", input |-> Expand(runs), step |-> "given",
                     output |-> <<>>, again |-> <<>>, path |-> <<>>]
    /\ chunking = NoChunking
    /\ knowledge_base = NoFiles
    /\ chroma = NoDocuments
    /\ ingested = NoIngestion
    /\ requests = NoRequests
    /\ workers = NoWorkers
    /\ carrier = NoCarrier

\* the session id of a request is sanitized, and the result once more
Sanitize ==
    /\ probe.step = "given"
    /\ probe' = [probe EXCEPT !.step = "sanitized",
                              !.output = sanitize_session_id(probe.input),
                              !.again = sanitize_session_id(sanitize_session_id(probe.input))]
    /\ UNCHANGED <<core, asked, chunking, knowledge_base, chroma, ingested, requests,
                   workers, carrier>>

\* get_session_state / save_session_state build the path of the file
OpenSessionFile ==
    /\ probe.step = "sanitized"
    /\ probe' = [probe EXCEPT !.step = "opened", !.path = session_path(probe.input)]
    /\ UNCHANGED <<core, asked, chunking, knowledge_base, chroma, ingested, requests,
                   workers, carrier>>

NextSanitize == Sanitize \/ OpenSessionFile

SpecSanitize == InitSanitize /\ [][NextSanitize]_vars

\* ------------------------------------------------------------------------
\* Properties of the sanitizer
\* ------------------------------------------------------------------------
Sanitized == probe.kind = "session_id" /\ probe.step \in {"sanitized", "opened"}

SafeChar(c) == c \in {"a", "Z", "7", "_", "-"}

\* the characters of the input that are letters, digits, "_" or "-"
AllowedOf(text) == SelectSeq(text, SafeChar)

\* C26 as stated: the result has at most 100 characters, all of them
\* letters, digits, underscore or hyphen, and is equal to the input's
\* allowed characters in their original order; sanitizing twice gives the
\* same as sanitizing once; the session file path is built from the
\* sanitized id.
C26_SanitizedIsAllowedPart ==
    Sanitized =>
        /\ Len(probe.output) <= 100
        /\ \A i \in 1..Len(probe.output) : SafeChar(probe.output[i])
        /\ probe.output = AllowedOf(probe.input)
        /\ probe.again = probe.output
        /\ probe.step = "opened" =>
              probe.path = <<"sessions", "/">> \o probe.output \o <<".json">>

\* C26 amended: the result is the first 100 of the input's allowed
\* characters in their original order (all of them when there are at most
\* 100), so it has at most 100 characters, all of them letters, digits,
\* underscore or hyphen; sanitizing twice gives the same as sanitizing
\* once; the session file path is the session directory, the sanitized id
\* and ".json".
C26_SanitizedIsAllowedPrefix ==
    Sanitized =>
        /\ Len(probe.output) <= 100
        /\ \A i \in 1..Len(probe.output) : SafeChar(probe.output[i])
        /\ Len(probe.output) = (IF Len(AllowedOf(probe.input)) < 100
                                THEN Len(AllowedOf(probe.input)) ELSE 100)
        /\ \A i \in 1..Len(probe.output) : probe.output[i] = AllowedOf(probe.input)[i]
        /\ probe.again = probe.output
        /\ probe.step = "opened" =>
              probe.path = <<"sessions", "/">> \o probe.output \o <<".json">>

\* an id with a path separator or a dot and more than 100 allowed characters
\* was cut to 100 characters and used for the path
C26_Witness ==
    /\ Sanitized
    /\ probe.step = "opened"
    /\ \E i \in 1..Len(probe.input) : probe.input[i] \in {"/", "."}
    /\ Len(AllowedOf(probe.input)) > 100
    /\ Len(probe.output) = 100
    /\ Len(probe.path) = 103

\* ------------------------------------------------------------------------
\* E-mail validation on characters (app.py lines 186-189 and 372-374)
\* ------------------------------------------------------------------------

\* [a-zA-Z0-9._%+-]
LocalChar(c) == c \in LetterChars \cup DigitChars \cup {".", "_", "%", "+", "-"}

\* [a-zA-Z0-9.-]
DomainChar(c) == c \in LetterChars \cup DigitChars \cup {".", "-"}

\* [a-zA-Z]
TldChar(c) == c \in LetterChars

\* the positions at which $ matches: the end of the string and, as re
\* defines it, just before a newline that ends the string
DollarPositions(s) ==
    {Len(s)} \cup (IF Len(s) > 0 /\ s[Len(s)] = "\n" THEN {Len(s) - 1} ELSE {})

\* EMAIL_REGEX.match: some "@" at position a and "." at position d split
\* the string up to a position of $ into local part, domain and tld
EMAIL_REGEX_match(s) ==
    \E end \in DollarPositions(s) :
       \E a \in 2..end :
          \E d \in (a + 2)..(end - 2) :
             /\ s[a] = "@"
             /\ s[d] = "."
             /\ \A i \in 1..(a - 1) : LocalChar(s[i])
             /\ \A i \in (a + 1)..(d - 1) : DomainChar(s[i])
             /\ \A i \in (d + 1)..end : TldChar(s[i])

\* bool(EMAIL_REGEX.match(email))
is_valid_email_chars(email) == EMAIL_REGEX_match(email)

\* ------------------------------------------------------------------------
\* The validator on its own: every string of up to MaxEmailLen characters
\* over a letter, a digit, ".", "@" and a newline
\* ------------------------------------------------------------------------
EmailChars == {"a", "7", ".", "@", "\n"}

InitEmail ==
    /\ stored = NoFile
    /\ now = 0
    /\ turns = 0
    /\ openai_client = TRUE
    /\ ESCALATION_METHOD = "email"
    /\ last = NoTurn
    /\ session_cache = <<>>
    /\ wall = 0
    /\ collection = <<>>
    /\ found = NoRetrieval
    /\ asked = NoAnswer
    /\ \E k \in 0..MaxEmailLen :
         \E email \in [1..k -> EmailChars] :
            probe = [kind |-> "email", input |-> email, step |-> "given", output |-> FALSE]
    /\ chunking = NoChunking
    /\ knowledge_base = NoFiles
    /\ chroma = NoDocuments
    /\ ingested = NoIngestion
    /\ requests = NoRequests
    /\ workers = NoWorkers
    /\ carrier = NoCarrier

ValidateEmail ==
    /\ probe.step = "given"
    /\ probe' = [probe EXCEPT !.step = "validated",
                              !.output = is_valid_email_chars(probe.input)]
    /\ UNCHANGED <<core, asked, chunking, knowledge_base, chroma, ingested, requests,
                   workers, carrier>>

NextEmail == ValidateEmail

SpecEmail == InitEmail /\ [][NextEmail]_vars

\* ------------------------------------------------------------------------
\* Properties of the validator
\* ------------------------------------------------------------------------
Validated == probe.kind = "email" /\ probe.step = "validated"

\* the string is local@domain.tld: one or more of letters, digits and
\* . _ % + - , an "@", one or more of letters, digits, dot and hyphen, a
\* dot, and two or more letters
IsLocalAtDomainDotTld(s) ==
    \E a \in 2..Len(s) :
       \E d \in (a + 2)..(Len(s) - 2) :
          /\ s[a] = "@"
          /\ s[d] = "."
          /\ \A i \in 1..(a - 1) : s[i] \in {"a", "7", ".", "_", "%", "+", "-"}
          /\ \A i \in (a + 1)..(d - 1) : s[i] \in {"a", "7", ".", "-"}
          /\ \A i \in (d + 1)..Len(s) : s[i] = "a"

\* C27: is_valid_email accepts exactly the strings of the form
\* local@domain.tld; it rejects the empty string and every string with
\* whitespace, without local part, domain or tld, or with two "@".
C27_AcceptsExactlyAddresses ==
    Validated =>
        /\ probe.output = IsLocalAtDomainDotTld(probe.input)
        /\ (\E i \in 1..Len(probe.input) : probe.input[i] = "\n") => ~probe.output
        /\ probe.input = <<>> => ~probe.output

\* ------------------------------------------------------------------------
\* Chunking (rag_engine.py lines 318-375).  Positions are Python indices:
\* the character at index i of full_text is full_text[i + 1] here.
\* ------------------------------------------------------------------------
Whitespace == {" ", "\n"}

\* chunk.rfind('\n') for chunk = full_text[start:end]: the index in the
\* chunk of its last newline, or -1
rfind_newline(full_text, start, end) ==
    LET stop == IF end < Len(full_text) THEN end ELSE Len(full_text)
        at == {j \in 0..(stop - start - 1) : full_text[start + j + 1] = "\n"}
    IN  IF at = {} THEN -1 ELSE CHOOSE j \in at : \A k \in at : k <= j

\* chunk.strip() is not empty, for chunk = full_text[start:end]
HasText(full_text, start, end) ==
    \E i \in start..(end - 1) : i < Len(full_text) /\ full_text[i + 1] \notin Whitespace

\* last_newline > chunk_size * 0.5
PastHalf_Any(last_newline, chunk_size) == TRUE

PastHalf(last_newline, chunk_size) == 2 * last_newline > chunk_size

\* lines 335-343: the window that starts at start, its end pulled back to
\* just after the last newline when that keeps more than half of it
Window(full_text, chunk_size, start) ==
    LET end == start + chunk_size
        last_newline == rfind_newline(full_text, start, end)
        pulled == /\ end < Len(full_text)
                  /\ last_newline # -1
                  /\ PastHalf(last_newline, chunk_size)
    IN  [start |-> start,
         end |-> IF pulled THEN start + last_newline + 1 ELSE end,
         pulled |-> pulled]

\* lines 364-373: the start of the next window
NextStart(start, end, overlap, text_len) ==
    LET back == end - overlap
        clamped == IF back < 0 THEN 0 ELSE back
    IN  IF clamped >= text_len THEN clamped
        ELSE IF end <= clamped THEN end
        ELSE clamped

\* the loop state before the first iteration
Chunking(full_text, chunk_size, overlap) ==
    [kind |-> "loop", full_text |-> full_text, chunk_size |-> chunk_size,
     overlap |-> overlap, start |-> 0, chunk_index |-> 0,
     previous |-> 0,       \* start of the window of the last iteration
     iterations |-> 0,     \* iterations made so far
     frontier |-> 0,       \* the largest window end so far
     failures |-> 0,       \* embedding or add calls that raised
     chunks |-> <<>>]      \* the chunks added: window and chunk index

\* the while condition
Looping(c) == c.start < Len(c.full_text)

\* one iteration of the loop, embedded telling whether the embedding and
\* the add call for the chunk succeed
Iteration(c, embedded) ==
    LET w == Window(c.full_text, c.chunk_size, c.start)
        added == HasText(c.full_text, w.start, w.end) /\ embedded
        failed == HasText(c.full_text, w.start, w.end) /\ ~embedded
    IN  [c EXCEPT
            !.start = NextStart(c.start, w.end, c.overlap, Len(c.full_text)),
            !.previous = c.start,
            !.iterations = c.iterations + 1,
            !.frontier = IF w.end > c.frontier THEN w.end ELSE c.frontier,
            !.failures = IF failed THEN c.failures + 1 ELSE c.failures,
            !.chunk_index = IF added THEN c.chunk_index + 1 ELSE c.chunk_index,
            !.chunks = IF added
                       THEN Append(c.chunks, [start |-> w.start, end |-> w.end,
                                              pulled |-> w.pulled, index |-> c.chunk_index])
                       ELSE c.chunks]

\* ------------------------------------------------------------------------
\* The chunking loop on its own: every text of up to MaxText characters
\* over a letter, a space and a newline, every chunk size up to
\* MaxChunkSize and every smaller overlap
\* ------------------------------------------------------------------------
TextChars == {"a", " ", "\n"}

InitChunking ==
    /\ stored = NoFile
    /\ now = 0
    /\ turns = 0
    /\ openai_client = TRUE
    /\ ESCALATION_METHOD = "email"
    /\ last = NoTurn
    /\ session_cache = <<>>
    /\ wall = 0
    /\ collection = <<>>
    /\ found = NoRetrieval
    /\ asked = NoAnswer
    /\ probe = NoProbe
    /\ \E n \in 0..MaxText :
         \E full_text \in [1..n -> TextChars] :
            \E chunk_size \in 1..MaxChunkSize :
               \E overlap \in 0..(chunk_size - 1) :
                  chunking = Chunking(full_text, chunk_size, overlap)
    /\ knowledge_base = NoFiles
    /\ chroma = NoDocuments
    /\ ingested = NoIngestion
    /\ requests = NoRequests
    /\ workers = NoWorkers
    /\ carrier = NoCarrier

\* one iteration; the model follows a loop for MaxIterations iterations
ChunkStep ==
    /\ Looping(chunking)
    /\ chunking.iterations < MaxIterations
    /\ \E embedded \in (IF chunking.failures < MaxEmbeddingFailures /\
                           LET w == Window(chunking.full_text, chunking.chunk_size,
                                           chunking.start)
                           IN  HasText(chunking.full_text, w.start, w.end)
                        THEN BOOLEAN ELSE {TRUE}) :
         chunking' = Iteration(chunking, embedded)
    /\ UNCHANGED <<core, asked, probe, knowledge_base, chroma, ingested, requests,
                   workers, carrier>>

NextChunking == ChunkStep

SpecChunking == InitChunking /\ [][NextChunking]_vars

\* ------------------------------------------------------------------------
\* Properties of the chunking loop
\* ------------------------------------------------------------------------
Chunked == chunking.kind = "loop" /\ chunking.iterations > 0

\* C28: for every chunk_size and overlap with 0 <= overlap < chunk_size and
\* every text the loop terminates after a bounded number of iterations: the
\* window start strictly advances on every iteration, also when the window
\* end is pulled back to a newline, so there are never more iterations than
\* characters.
C28_StartAdvances ==
    Chunked =>
        /\ chunking.start > chunking.previous
        /\ chunking.iterations <= Len(chunking.full_text)

\* the character at index i is inside a chunk that was added
Covered(i) ==
    \E k \in 1..Len(chunking.chunks) :
       chunking.chunks[k].start <= i /\ i < chunking.chunks[k].end

\* the loop has ended and no embedding or add call raised
ChunkedWhole ==
    /\ chunking.kind = "loop"
    /\ chunking.start >= Len(chunking.full_text)
    /\ chunking.failures = 0

\* a run of more than overlap characters none of which is in a chunk
UncoveredGap ==
    \E i \in 0..(Len(chunking.full_text) - 1) :
       \A j \in i..(i + chunking.overlap) :
          j < Len(chunking.full_text) /\ ~Covered(j)

\* a chunk whose end was pulled back has at least half the chunk size
PulledChunksLong ==
    \A k \in 1..Len(chunking.chunks) :
       chunking.chunks[k].pulled =>
          2 * (chunking.chunks[k].end - chunking.chunks[k].start) >= chunking.chunk_size

\* C29 as stated: for every text and overlap < chunk_size, with no
\* embedding failures, the union of the chunks produced covers the full
\* text with no uncovered gap longer than the overlap, and a chunk whose
\* end was pulled back to a newline is never shorter than half the chunk
\* size.
C29_NoGapBeyondOverlap ==
    ChunkedWhole => (~UncoveredGap /\ PulledChunksLong)

\* C29 amended: with no embedding failures the chunks added so far contain
\* every character that is not whitespace up to the furthest window end
\* reached, which is the end of the text once the loop has ended: the only
\* characters left out are those of windows of nothing but whitespace, which
\* are skipped and may be longer than the overlap.  A chunk whose end was
\* pulled back to a newline is never shorter than half the chunk size.
C29_TextCovered ==
    (chunking.kind = "loop" /\ chunking.failures = 0) =>
        /\ \A i \in 0..(Len(chunking.full_text) - 1) :
              (i < chunking.frontier /\ chunking.full_text[i + 1] \notin {" ", "\n"})
                 => Covered(i)
        /\ chunking.start >= Len(chunking.full_text) =>
              chunking.frontier >= Len(chunking.full_text)
        /\ PulledChunksLong

\* a finished run in which a chunk was cut short at a newline and a window
\* of whitespace was skipped, leaving a gap longer than the overlap
C29_Witness ==
    /\ ChunkedWhole
    /\ chunking.iterations > 1
    /\ UncoveredGap
    /\ \E k \in 1..Len(chunking.chunks) :
          /\ chunking.chunks[k].pulled
          /\ chunking.chunks[k].end < chunking.chunks[k].start + chunking.chunk_size
    /\ \E i \in 0..(Len(chunking.full_text) - 1) : Covered(i)

\* ------------------------------------------------------------------------
\* Ingestion (rag_engine.py lines 377-501) for an engine whose collection
\* was opened and whose knowledge-base directory exists.  A file is its
\* name and the windows the chunking loop cuts its text into, each window
\* having text (TRUE) or only whitespace (FALSE); the store maps the id of
\* a chunk to its metadata.
\* ------------------------------------------------------------------------

\* f"{source_id}_chunk_{chunk_index}"
chunk_id(source_id, chunk_index) == <<source_id, "chunk", chunk_index>>

\* os.path.exists(self.knowledge_base_path) is false: no directory, which
\* is not the same as a directory without files
NoDirectory == <<[name |-> "none", windows |-> <<>>, present |-> FALSE]>>

\* the calls and the store of a run so far
RunStart(store) ==
    [store |-> store,
     calls |-> 0,            \* calls of _get_embedding
     failures |-> 0,         \* calls of _get_embedding that raised
     embedded |-> {},        \* sources for which _get_embedding was called
     adds |-> {},            \* ids passed to collection.add
     skipped |-> {},         \* files skipped as already ingested
     count |-> 0,            \* files chunked
     removed |-> {},         \* stale sources deleted
     window |-> 0,           \* iterations of the chunk loop for the file at hand
     created |-> FALSE,      \* the directory was missing and has been made
     aborted |-> FALSE]      \* an exception left ingest_documents

\* _ingest_text_chunks on the windows of a text: o.fail_at is the number of
\* the embedding call of this run that raises (0: none) and o.duplicate is
\* what collection.add does with an id the store already holds
RECURSIVE ingest_text_chunks(_, _, _, _, _)
ingest_text_chunks(windows, source_id, chunk_index, r, o) ==
    IF windows = <<>> THEN r
    ELSE IF ~Head(windows)
    THEN ingest_text_chunks(Tail(windows), source_id, chunk_index,
                            [r EXCEPT !.window = r.window + 1], o)
    ELSE LET id == chunk_id(source_id, chunk_index)
             embedded == r.calls + 1 # o.fail_at
             held == id \in DOMAIN r.store
             added == embedded /\ (~held \/ o.duplicate = "ignore")
         IN  ingest_text_chunks(
                Tail(windows), source_id,
                IF added THEN chunk_index + 1 ELSE chunk_index,
                [r EXCEPT !.window = r.window + 1,
                          !.calls = r.calls + 1,
                          !.failures = IF embedded THEN r.failures ELSE r.failures + 1,
                          !.embedded = r.embedded \cup {source_id},
                          !.adds = IF embedded THEN r.adds \cup {id} ELSE r.adds,
                          !.store = IF embedded /\ ~held
                                    THEN Put(r.store, id, [source |-> source_id,
                                                           window |-> r.window + 1])
                                    ELSE r.store],
                o)

\* text.strip() of the whole file
HasAnyText(windows) == \E i \in 1..Len(windows) : windows[i]

\* _cleanup_stale_entries: the sources without a file are deleted, unless
\* the delete call raises
cleanup_stale_entries(files, r, o) ==
    LET indexed_sources == {r.store[id].source : id \in DOMAIN r.store}
        current_files == {files[i].name : i \in 1..Len(files)}
        stale_sources == indexed_sources \ current_files
    IN  IF o.delete = "raise" THEN r
        ELSE [r EXCEPT !.removed = stale_sources,
                       !.store = [id \in {x \in DOMAIN r.store :
                                            r.store[x].source \notin stale_sources}
                                  |-> r.store[id]]]

\* the test of lines 448 and 478
AlreadyIngested_Never(file_id, existing_ids) == FALSE

AlreadyIngested(file_id, existing_ids) == chunk_id(file_id, 0) \in existing_ids

\* lines 445-499: the files from the i-th on, in the order of the two globs
RECURSIVE ingest_files(_, _, _, _, _)
ingest_files(files, i, existing_ids, r, o) ==
    IF i > Len(files) THEN r
    ELSE LET file == files[i] IN
         IF AlreadyIngested(file.name, existing_ids)
         THEN ingest_files(files, i + 1, existing_ids,
                           [r EXCEPT !.skipped = r.skipped \cup {file.name}], o)
         ELSE IF file.name \in o.unreadable \/ ~HasAnyText(file.windows)
         THEN ingest_files(files, i + 1, existing_ids, r, o)
         ELSE ingest_files(files, i + 1, existing_ids,
                           [ingest_text_chunks(file.windows, file.name, 0,
                                               [r EXCEPT !.window = 0], o)
                               EXCEPT !.count = r.count + 1],
                           o)

\* variant: the ids of the store are never known
ListedIds_None(store, o) == {}

\* lines 436-443: the ids of the store, or none when reading them raises
ListedIds(store, o) == IF o.listing = "raise" THEN {} ELSE DOMAIN store

\* ingest_documents: o.scan tells whether the clean-up could read the
\* store, an exception there leaving the function, and o.listing whether
\* the ids of the store could be read; when that raises no id is known
\* (lines 436-443); a missing directory is made and nothing else is done
\* (lines 427-429)
ingest_documents(files, store, o) ==
    LET cleaned == cleanup_stale_entries(files, RunStart(store), o)
        existing_ids == ListedIds(cleaned.store, o)
    IN  IF files = NoDirectory THEN [RunStart(store) EXCEPT !.created = TRUE]
        ELSE IF o.scan = "raise" THEN [RunStart(store) EXCEPT !.aborted = TRUE]
        ELSE ingest_files(files, 1, existing_ids, cleaned, o)

\* ------------------------------------------------------------------------
\* Ingestion on its own: a directory with up to two files that do not
\* change, or no directory yet, a store left behind by earlier runs, and up
\* to MaxIngestions runs of ingest_documents (at start-up and through
\* /api/ingest)
\* ------------------------------------------------------------------------
FileNames == <<"faq.txt", "guide.pdf">>

FileWindows == {<<>>, <<FALSE>>, <<TRUE>>, <<TRUE, TRUE>>, <<FALSE, TRUE>>}

\* the directory holding the named files with the given windows
Directory(present, windows) ==
    SelectSeq([i \in 1..Len(FileNames) |->
                  [name |-> FileNames[i], windows |-> windows[i],
                   present |-> FileNames[i] \in present]],
              LAMBDA f : f.present)

\* what earlier runs left: the first chunk of an older version of a file,
\* and the chunk of a file that was deleted since
EarlierChunks == {chunk_id("faq.txt", 0), chunk_id("old.txt", 0)}

StoreOf(ids) == [id \in ids |-> [source |-> id[1], window |-> 1]]

\* no call fails
NoFailure ==
    [scan |-> "ok", listing |-> "ok", delete |-> "ok", duplicate |-> "raise",
     fail_at |-> 0, unreadable |-> {}]

IngestOracles(files, store) ==
    IF files = NoDirectory THEN {NoFailure} ELSE
    [scan      : {"ok", "raise"},
     listing   : {"ok", "raise"},
     delete    : IF \E id \in DOMAIN store :
                       store[id].source \notin {files[i].name : i \in 1..Len(files)}
                 THEN {"ok", "raise"} ELSE {"ok"},
     duplicate : {"raise", "ignore"},
     fail_at   : 0..2,
     unreadable: IF \E i \in 1..Len(files) : files[i].name = "faq.txt"
                 THEN {{}, {"faq.txt"}} ELSE {{}}]

\* no call of the store raised and every file could be read
Sound(o) == o.scan = "ok" /\ o.listing = "ok" /\ o.delete = "ok" /\ o.unreadable = {}

InitIngest ==
    /\ stored = NoFile
    /\ now = 0
    /\ turns = 0
    /\ openai_client = TRUE
    /\ ESCALATION_METHOD = "email"
    /\ last = NoTurn
    /\ session_cache = <<>>
    /\ wall = 0
    /\ collection = <<>>
    /\ found = NoRetrieval
    /\ asked = NoAnswer
    /\ probe = NoProbe
    /\ chunking = NoChunking
    /\ \/ \E present \in SUBSET {FileNames[i] : i \in 1..Len(FileNames)} :
            \E windows \in [1..Len(FileNames) -> FileWindows] :
               knowledge_base = Directory(present, windows)
       \/ knowledge_base = NoDirectory
    /\ \E ids \in SUBSET EarlierChunks : chroma = StoreOf(ids)
    /\ ingested = NoIngestion
    /\ requests = NoRequests
    /\ workers = NoWorkers
    /\ carrier = NoCarrier

\* one run of ingest_documents
Ingest ==
    /\ (ingested.kind = "run" => ingested.run < MaxIngestions)
    /\ \E o \in IngestOracles(knowledge_base, chroma) :
         LET r == ingest_documents(knowledge_base, chroma, o) IN
         /\ chroma' = r.store
         /\ knowledge_base' = IF r.created THEN <<>> ELSE knowledge_base
         /\ ingested' = [kind |-> "run",
                         run |-> IF ingested.kind = "run" THEN ingested.run + 1 ELSE 1,
                         before |-> DOMAIN chroma,
                         held |-> chroma,
                         o |-> o,
                         result |-> [r EXCEPT !.store = <<>>],
                         previous |-> IF ingested.kind = "run"
                                      THEN [failures |-> ingested.result.failures,
                                            sound |-> Sound(ingested.o)
                                                      /\ ~ingested.result.created]
                                      ELSE [failures |-> 0, sound |-> TRUE]]
    /\ UNCHANGED <<core, asked, probe, chunking, requests, workers, carrier>>

NextIngest == Ingest

SpecIngest == InitIngest /\ [][NextIngest]_vars

\* ------------------------------------------------------------------------
\* Properties of the ingestion
\* ------------------------------------------------------------------------

\* the most recent run directly followed another one, and no embedding
\* call raised in either
IngestedTwice ==
    /\ ingested.kind = "run"
    /\ ingested.run >= 2
    /\ ingested.result.failures = 0
    /\ ingested.previous.failures = 0

\* the store holds the ids it held before the run, and every file whose
\* first chunk id was in the store was skipped without embedding or add
SecondRunIsNoOp ==
    /\ DOMAIN chroma = ingested.before
    /\ \A i \in 1..Len(knowledge_base) :
          <<knowledge_base[i].name, "chunk", 0>> \in ingested.before =>
             /\ knowledge_base[i].name \in ingested.result.skipped
             /\ knowledge_base[i].name \notin ingested.result.embedded
             /\ \A id \in ingested.result.adds : id[1] # knowledge_base[i].name

LoadGuard_Locked(reqs) == \A q \in 1..Len(reqs) : reqs[q].pc = "done"

\* what get_session_state waits for before it reads the file: nothing
LoadGuard(reqs) == TRUE

InFlight(reqs, p) == reqs[p].pc \in {"loaded", "truncated"}

\* the file between open(path, 'w') and json.dump: empty, which is not JSON
Truncated == Unreadable("JSONDecodeError")

\* the file after two writes through descriptors opened before either:
\* the later text over the earlier one, or what is left of both
WrittenFiles(request) ==
    {request.result.stored}
    \cup (IF request.clobbered THEN {Unreadable("JSONDecodeError")} ELSE {})

ConcurrentMessages == {<<>>, <<"Ja">>, <<"nee">>, <<"order", WS, "123">>}

InitConcurrent ==
    /\ stored = NoFile
    /\ now = 0
    /\ turns = 0
    /\ openai_client \in BOOLEAN
    /\ ESCALATION_METHOD = "email"
    /\ last = NoTurn
    /\ session_cache = <<>>
    /\ wall = 0
    /\ collection = <<>>
    /\ found = NoRetrieval
    /\ asked = NoAnswer
    /\ probe = NoProbe
    /\ chunking = NoChunking
    /\ knowledge_base = NoFiles
    /\ chroma = NoDocuments
    /\ ingested = NoIngestion
    /\ requests = NoRequests
    /\ workers = NoWorkers
    /\ carrier = NoCarrier

\* a request arrives and runs up to its save: get_session_state reads the
\* file as it is, and the turn is computed from that
Load ==
    /\ Len(requests) < MaxRequests
    /\ LoadGuard(requests)
    /\ \E user_message \in ConcurrentMessages :
         \E result \in chat(stored, now, user_message, openai_client, ESCALATION_METHOD) :
            LET racing == \E q \in 1..Len(requests) : InFlight(requests, q) IN
            requests' = Append([q \in 1..Len(requests) |->
                                   IF InFlight(requests, q)
                                   THEN [requests[q] EXCEPT !.overlapped = TRUE]
                                   ELSE requests[q]],
                               [message |-> user_message, snapshot |-> stored,
                                result |-> result, pc |-> "loaded",
                                overlapped |-> racing, clobbered |-> FALSE, order |-> 0])
    /\ UNCHANGED <<core, asked, probe, chunking, knowledge_base, chroma, ingested,
                   workers, carrier>>

\* save_session_state opens the file for writing
Truncate(p) ==
    /\ requests[p].pc = "loaded"
    /\ requests[p].result.saved
    /\ stored' = Truncated
    /\ requests' = [q \in 1..Len(requests) |->
                       IF q = p THEN [requests[q] EXCEPT !.pc = "truncated"]
                       ELSE [requests[q] EXCEPT !.clobbered = FALSE]]
    /\ UNCHANGED <<now, turns, openai_client, ESCALATION_METHOD, last, session_cache, wall,
                   collection, found, asked, probe, chunking, knowledge_base, chroma,
                   ingested, workers, carrier>>

\* json.dump writes the state of the request and the request returns
Write(p) ==
    /\ requests[p].pc = "truncated"
    /\ stored' \in WrittenFiles(requests[p])
    /\ requests' = [q \in 1..Len(requests) |->
                       IF q = p
                       THEN [requests[q] EXCEPT
                               !.pc = "done",
                               !.order = 1 + Cardinality({r \in 1..Len(requests) :
                                                            requests[r].order > 0})]
                       ELSE IF requests[q].pc = "truncated"
                       THEN [requests[q] EXCEPT !.clobbered = TRUE]
                       ELSE requests[q]]
    /\ UNCHANGED <<now, turns, openai_client, ESCALATION_METHOD, last, session_cache, wall,
                   collection, found, asked, probe, chunking, knowledge_base, chroma,
                   ingested, workers, carrier>>

\* a request that saves nothing (an empty or too long message) returns
Return(p) ==
    /\ requests[p].pc = "loaded"
    /\ ~requests[p].result.saved
    /\ requests' = [requests EXCEPT ![p].pc = "done"]
    /\ UNCHANGED <<core, asked, probe, chunking, knowledge_base, chroma, ingested,
                   workers, carrier>>

NextConcurrent ==
    \/ Load
    \/ \E p \in 1..Len(requests) : Truncate(p)
    \/ \E p \in 1..Len(requests) : Write(p)
    \/ \E p \in 1..Len(requests) : Return(p)

SpecConcurrent == InitConcurrent /\ [][NextConcurrent]_vars

\* ------------------------------------------------------------------------
\* Properties of concurrent requests
\* ------------------------------------------------------------------------

\* the request whose write was the latest
LatestWriter(p) ==
    /\ requests[p].order > 0
    /\ \A q \in 1..Len(requests) : requests[q].order <= requests[p].order

\* no request ever ran while another one was between its load and its save
Sequential == \A p \in 1..Len(requests) : ~requests[p].overlapped

\* what the request left in the file
LeftBy(request) == IF request.result.saved THEN request.result.stored ELSE request.snapshot

\* C30: the session is read, modified and written back without a lock.  A
\* request is never kept from loading the session while another request is
\* between its load and its save; the file holds what the latest writer
\* computed from the state it loaded, whatever was saved in between (or the
\* remains of two overlapping writes); and when the turns are strictly
\* sequential every turn starts from the state the previous turn left.
C30_NoLockLastWriterWins ==
    /\ ((\E p \in 1..Len(requests) : InFlight(requests, p)) /\ Len(requests) < MaxRequests)
          => ENABLED Load
    /\ \A p \in 1..Len(requests) :
          (LatestWriter(p) /\ \A q \in 1..Len(requests) : requests[q].pc # "truncated") =>
             \/ stored = requests[p].result.stored
             \/ requests[p].clobbered /\ stored = [unreadable |-> "JSONDecodeError"]
    /\ Sequential =>
          \A p \in 2..Len(requests) : requests[p].snapshot = LeftBy(requests[p - 1])

\* a lost update: two requests loaded the same state, both saved, and the
\* file holds the turn of the second without the message of the first
C30_Witness ==
    /\ Len(requests) >= 2
    /\ requests[1].snapshot = requests[2].snapshot
    /\ requests[1].pc = "done" /\ requests[2].pc = "done"
    /\ requests[1].order = 1 /\ requests[2].order = 2
    /\ requests[1].message = <<"order", " ", "123">>
    /\ requests[2].message = <<"Ja">>
    /\ stored = requests[2].result.stored
    /\ "chat_history" \in DOMAIN stored
    /\ \A i \in 1..Len(stored["chat_history"]) :
          stored["chat_history"][i].content # <<"order", " ", "123">>
    /\ "awaiting_order_confirmation" \notin DOMAIN stored
    /\ "awaiting_order_confirmation" \in DOMAIN requests[1].result.stored

\* ------------------------------------------------------------------------
\* A full retrieval cache: get_answer lines 575-640 on a cache that already
\* holds 49 or 50 entries (rag_engine.py lines 218-231)
\* ------------------------------------------------------------------------

\* the search queries answered earlier, in the order they were cached
CachedEarlier ==
    <<"vraag01", "vraag02", "vraag03", "vraag04", "vraag05", "vraag06", "vraag07",
     "vraag08", "vraag09", "vraag10", "vraag11", "vraag12", "vraag13", "vraag14",
     "vraag15", "vraag16", "vraag17", "vraag18", "vraag19", "vraag20", "vraag21",
     "vraag22", "vraag23", "vraag24", "vraag25", "vraag26", "vraag27", "vraag28",
     "vraag29", "vraag30", "vraag31", "vraag32", "vraag33", "vraag34", "vraag35",
     "vraag36", "vraag37", "vraag38", "vraag39", "vraag40", "vraag41", "vraag42",
     "vraag43", "vraag44", "vraag45", "vraag46", "vraag47", "vraag48", "vraag49",
     "vraag50">>

\* the clock readings under which the earlier entries were stored, in
\* insertion order: one reading for all, a reading each, or three readings
Stamps == {"one", "each", "three"}
StampOf(stamps, k) ==
    IF stamps = "one" THEN 0
    ELSE IF stamps = "each" THEN k
    ELSE k \div 20

\* the context retrieved for each of the queries
FaqContext == Join(<<Chunk("faq", 1, 11)>>)

\* the cache after n sequential writes of distinct queries
Filled(n, stamps) ==
    [q \in {CachedEarlier[k] : k \in 1..n} |->
        LET k == CHOOSE i \in 1..n : CachedEarlier[i] = q
        IN  [context |-> FaqContext,
             timestamp |-> StampOf(stamps, k), position |-> k]]

FullSizes == {CACHE_MAX_ENTRIES - 1, CACHE_MAX_ENTRIES}
WallAtFull == 50

\* the queries asked of the full cache: the oldest and the newest cached
\* one and two that are not cached
AskedOfFull ==
    {CachedEarlier[1], CachedEarlier[CACHE_MAX_ENTRIES - 1], "nieuw1", "nieuw2"}

InitFull ==
    /\ stored = NoFile
    /\ now = 0
    /\ turns = 0
    /\ openai_client = TRUE
    /\ ESCALATION_METHOD = "email"
    /\ last = NoTurn
    /\ \E n \in FullSizes : \E stamps \in Stamps : session_cache = Filled(n, stamps)
    /\ wall = WallAtFull
    /\ collection = [q \in AskedOfFull |-> <<Chunk("faq", 1, 11)>>]
    /\ found = NoRetrieval
    /\ AuxIdle

\* one pass through lines 575-640, the cache before it kept for comparison
RetrieveFull ==
    /\ \E search_query \in DOMAIN collection :
         \E outcome \in (IF get_cached_context(session_cache, search_query, wall).context
                              # NoContext
                         THEN {NoOutcome}
                         ELSE RetrievalOutcomes(collection[search_query])) :
            LET result == retrieve(session_cache, wall, search_query, outcome) IN
            /\ session_cache' = result.cache
            /\ found' = [kind |-> "retrieval", query |-> search_query, at |-> wall,
                         entry |-> Get(session_cache, search_query, NoEntry),
                         outcome |-> outcome, result |-> result,
                         before |-> session_cache]
    /\ UNCHANGED <<stored, now, turns, openai_client, ESCALATION_METHOD, last, wall,
                   collection, aux>>

\* the entries of the cache grow stale between retrievals
Expire ==
    /\ wall + cache_ttl <= MaxWall
    /\ wall' = wall + cache_ttl
    /\ UNCHANGED <<stored, now, turns, openai_client, ESCALATION_METHOD, last,
                   session_cache, collection, found, aux>>

NextFull == RetrieveFull \/ Expire

SpecFull == InitFull /\ [][NextFull]_vars

\* the retrieval of `found` wrote its context to the cache
Wrote == Retrieved /\ ~found.result.hit /\ found.result.context # NoContext

\* the keys of the cache when the write of `found` had stored its entry
KeysWritten == DOMAIN found.before \cup {found.query}

\* C34: the retrieval cache never holds more than 50 entries once a write
\* has completed.  A write that brings it to 51 entries removes exactly 10
\* entries, none of them newer than an entry that stays, and keeps the
\* entry it inserted and every other entry as it was; a write that does not
\* exceed 50 removes nothing.
C34_CacheBounded ==
    /\ Cardinality(DOMAIN session_cache) <= 50
    /\ Wrote =>
         LET q == found.query
             removed == KeysWritten \ DOMAIN session_cache
         IN  /\ DOMAIN session_cache \subseteq KeysWritten
             /\ q \in DOMAIN session_cache
             /\ session_cache[q].context = found.result.context
             /\ session_cache[q].timestamp = found.at
             /\ \A k \in DOMAIN session_cache \ {q} :
                   /\ session_cache[k].context = found.before[k].context
                   /\ session_cache[k].timestamp = found.before[k].timestamp
             /\ IF Cardinality(KeysWritten) > 50
                THEN /\ Cardinality(removed) = 10
                     /\ \A r \in removed : \A k \in DOMAIN session_cache :
                           found.before[r].timestamp <= session_cache[k].timestamp
                ELSE removed = {}

\* a write of a new query to a cache of 50 entries left 41
C34_Witness ==
    /\ Wrote
    /\ found.entry = NoEntry
    /\ Cardinality(DOMAIN found.before) = 50
    /\ Cardinality(DOMAIN session_cache) = 41

\* ------------------------------------------------------------------------
\* Requests of several threads inside the retrieval cache code
\* (rag_engine.py lines 204-231 as called from get_answer lines 575-640;
\* app.run serves each request on a thread of its own and RagEngine is one
\* object).  A step is one operation on the dict: the interpreter runs
\* them one at a time, in any order across threads.
\* ------------------------------------------------------------------------

IdleWorker ==
    [pc |-> "idle", query |-> "none", context |-> NoContext, timestamp |-> -1,
     pending |-> <<>>, hit |-> FALSE, raised |-> "none", at |-> "none", embeddings |-> 0]

\* sorted_items[:n]: the keys of the n oldest entries, oldest first
RECURSIVE OldestKeys(_, _)
OldestKeys(cache, n) ==
    IF n = 0 \/ DOMAIN cache = {} THEN <<>>
    ELSE LET oldest == CHOOSE k \in DOMAIN cache :
                          \A j \in DOMAIN cache : Older(cache[k], cache[j])
         IN  <<oldest>> \o OldestKeys(Forget(cache, oldest), n - 1)

\* self.session_cache[query] and del self.session_cache[query] raise
\* KeyError when the key is not in the dict
ReadRaises(cache, query) == query \notin DOMAIN cache

\* the except clause of line 639 ends the retrieval of the request
Caught(worker, line) == [worker EXCEPT !.pc = "done", !.raised = "KeyError", !.at = line]

RaceQueries == {CachedEarlier[1], "nieuw1", "nieuw2"}

InitRace ==
    /\ stored = NoFile
    /\ now = 0
    /\ turns = 0
    /\ openai_client = TRUE
    /\ ESCALATION_METHOD = "email"
    /\ last = NoTurn
    /\ \E n \in {1, CACHE_MAX_ENTRIES} : session_cache = Filled(n, "each")
    /\ wall = WallAtFull
    /\ collection = [q \in RaceQueries |-> <<Chunk("faq", 1, 11)>>]
    /\ found = NoRetrieval
    /\ asked = NoAnswer
    /\ probe = NoProbe
    /\ chunking = NoChunking
    /\ knowledge_base = NoFiles
    /\ chroma = NoDocuments
    /\ ingested = NoIngestion
    /\ requests = NoRequests
    /\ workers = [p \in 1..MaxWorkers |-> IdleWorker]
    /\ carrier = NoCarrier

RaceFrame ==
    UNCHANGED <<stored, now, turns, openai_client, ESCALATION_METHOD, last, collection,
                found, asked, probe, chunking, knowledge_base, chroma, ingested, requests,
                carrier>>

\* line 575: a request reaches the cache with its search query
Enter(p) ==
    /\ workers[p].pc = "idle"
    /\ \E q \in DOMAIN collection :
         workers' = [workers EXCEPT ![p] = [IdleWorker EXCEPT !.pc = "check", !.query = q]]
    /\ UNCHANGED <<session_cache, wall>>
    /\ RaceFrame

\* line 207: if query in self.session_cache
Check(p) ==
    /\ workers[p].pc = "check"
    /\ workers' = [workers EXCEPT ![p].pc =
                      IF workers[p].query \in DOMAIN session_cache THEN "read" ELSE "embed"]
    /\ UNCHANGED <<session_cache, wall>>
    /\ RaceFrame

\* lines 208-212: context, timestamp = self.session_cache[query], and the
\* context is returned when it is fresh
Read(p) ==
    /\ workers[p].pc = "read"
    /\ LET w == workers[p] IN
       workers' = [workers EXCEPT ![p] =
          IF ReadRaises(session_cache, w.query) THEN Caught(w, "read")
          ELSE LET entry == Get(session_cache, w.query, NoEntry) IN
               IF Fresh(wall, entry.timestamp)
               THEN [w EXCEPT !.pc = "done", !.hit = TRUE, !.context = entry.context,
                              !.timestamp = entry.timestamp]
               ELSE [w EXCEPT !.pc = "expire", !.timestamp = entry.timestamp]]
    /\ UNCHANGED <<session_cache, wall>>
    /\ RaceFrame

\* line 215: del self.session_cache[query]
Delete(p) ==
    /\ workers[p].pc = "expire"
    /\ LET w == workers[p] IN
       IF ReadRaises(session_cache, w.query)
       THEN /\ workers' = [workers EXCEPT ![p] = Caught(w, "expire")]
            /\ UNCHANGED session_cache
       ELSE /\ workers' = [workers EXCEPT ![p].pc = "embed"]
            /\ session_cache' = IF w.query \in DOMAIN session_cache
                                THEN Forget(session_cache, w.query)
                                ELSE session_cache
    /\ UNCHANGED wall
    /\ RaceFrame

\* lines 579-633: the embedding, the vector search and the filters
Embed(p) ==
    /\ workers[p].pc = "embed"
    /\ \E outcome \in RetrievalOutcomes(collection[workers[p].query]) :
         LET w == workers[p]
             filtered == FilterByDistance(outcome.results)
             diversified == IF filtered # <<>> THEN Diversify(filtered, <<>>, <<>>) ELSE <<>>
             context == Join(diversified)
         IN  workers' = [workers EXCEPT ![p] =
                [w EXCEPT !.embeddings = 1,
                          !.context = context,
                          !.raised = IF "raise" \in {outcome.embedding, outcome.search}
                                     THEN "OpenAIError" ELSE "none",
                          !.pc = IF context # NoContext THEN "store" ELSE "done"]]
    /\ UNCHANGED <<session_cache, wall>>
    /\ RaceFrame

\* line 221: self.session_cache[query] = (context, time.time())
Store(p) ==
    /\ workers[p].pc = "store"
    /\ LET w == workers[p] IN
       /\ session_cache' = Put(session_cache, w.query,
                               [context |-> w.context, timestamp |-> wall,
                                position |-> PositionOf(session_cache, w.query)])
       /\ workers' = [workers EXCEPT ![p].pc = "count", ![p].timestamp = wall]
    /\ UNCHANGED wall
    /\ RaceFrame

\* lines 224-228: the size test and the sorted list of the items
Count(p) ==
    /\ workers[p].pc = "count"
    /\ workers' = [workers EXCEPT ![p] =
          IF Exceeds(Cardinality(DOMAIN session_cache))
          THEN [@ EXCEPT !.pc = "evict", !.pending = OldestKeys(session_cache, CACHE_EVICTED)]
          ELSE [@ EXCEPT !.pc = "done"]]
    /\ UNCHANGED <<session_cache, wall>>
    /\ RaceFrame

\* lines 230-231: one del of the loop over the ten oldest items
Evict(p) ==
    /\ workers[p].pc = "evict"
    /\ LET w == workers[p] IN
       IF w.pending = <<>>
       THEN /\ workers' = [workers EXCEPT ![p].pc = "done"]
            /\ UNCHANGED session_cache
       ELSE IF ReadRaises(session_cache, Head(w.pending))
       THEN /\ workers' = [workers EXCEPT ![p] = Caught(w, "evict")]
            /\ UNCHANGED session_cache
       ELSE /\ workers' = [workers EXCEPT ![p].pending = Tail(w.pending)]
            /\ session_cache' = IF Head(w.pending) \in DOMAIN session_cache
                                THEN Forget(session_cache, Head(w.pending))
                                ELSE session_cache
    /\ UNCHANGED wall
    /\ RaceFrame

\* the entries of the cache grow stale while requests are being served
ExpireDuring ==
    /\ wall + cache_ttl <= MaxWall
    /\ wall' = wall + cache_ttl
    /\ UNCHANGED <<session_cache, workers>>
    /\ RaceFrame

NextRace ==
    \/ \E p \in 1..Len(workers) : Enter(p)
    \/ \E p \in 1..Len(workers) : Check(p)
    \/ \E p \in 1..Len(workers) : Read(p)
    \/ \E p \in 1..Len(workers) : Delete(p)
    \/ \E p \in 1..Len(workers) : Embed(p)
    \/ \E p \in 1..Len(workers) : Store(p)
    \/ \E p \in 1..Len(workers) : Count(p)
    \/ \E p \in 1..Len(workers) : Evict(p)
    \/ ExpireDuring

SpecRace == InitRace /\ [][NextRace]_vars

\* every entry of the cache is a context retrieved for its key and a clock
\* reading that is not in the future
EntriesStoredForKey ==
    \A k \in DOMAIN session_cache :
       /\ session_cache[k].context = FaqContext
       /\ session_cache[k].timestamp <= wall

\* C31 as stated: concurrent requests never corrupt the retrieval cache;
\* each key maps to a (context, timestamp) pair stored for it, and a lookup
\* or insert that races with another request's expiry or eviction ends as a
\* hit, a miss or duplicate embedding work; no cache operation fails and no
\* request is left without its retrieval.
C31_CacheRaceFree ==
    /\ EntriesStoredForKey
    /\ \A p \in 1..Len(workers) :
          /\ workers[p].raised # "KeyError"
          /\ (workers[p].pc = "done" /\ workers[p].raised = "none")
                => workers[p].context # NoContext

\* the reformulated query followed by every entity it does not hold,
\* whatever the case of the letters
RECURSIVE Enriched(_, _)
Enriched(text, entities) ==
    IF entities = <<>> THEN text
    ELSE Enriched(IF \E i \in 0..(Len(text) - Len(Head(entities))) :
                        \A j \in 1..Len(Head(entities)) :
                           Lower(text)[i + j] = Lower(Head(entities))[j]
                  THEN text
                  ELSE text \o <<WS>> \o Head(entities),
                  Tail(entities))

\* C32 as stated: for a turn with a conversation, the query embedded and
\* used as the cache key is the reformulated query with every extracted
\* entity it does not already hold (whatever the case) appended; in an
\* English conversation the text handed to the translation is that enriched
\* query and its translation is what is embedded.
C32_EnrichedQuerySearched ==
    (Searching /\ asked.chat_history # <<>>) =>
       LET enriched == Enriched(asked.result.reformulated, asked.result.entities) IN
       /\ asked.language # "en" => asked.result.search_query = enriched
       /\ (asked.language = "en" /\ ~asked.o.rt.exc) =>
             /\ asked.result.translated = enriched
             /\ asked.result.search_query = strip(asked.o.rt.content)

\* the Dutch half of C32: the enriched query is what a Dutch turn searches
C32_DutchEnrichedQuerySearched ==
    (Searching /\ asked.chat_history # <<>> /\ asked.language # "en") =>
       asked.result.search_query = Enriched(asked.result.reformulated, asked.result.entities)

\* ------------------------------------------------------------------------
\* The ticket-intent classifier on its own (rag_engine.py lines 947-1008):
\* detect_ticket_intent is called with a text, with and without a client
\* ------------------------------------------------------------------------
IntentTexts ==
    {<<>>, <<WS>>, <<"Wilco">>, <<"ja">>, <<"Ja">>, <<"order", WS, "123">>,
     <<"laat">>, <<"maar">>, <<"maar", WS, "laat">>, <<"niet">>, <<"a@b.co">>,
     <<"nee">>, <<WS, "no", WS>>, <<"arnold">>, <<"Wilco", WS, "nope">>,
     <<"laat", WS, "maar">>, <<"never", WS, "mind">>, <<"hoeft", WS, "niet">>,
     <<"geen", WS, "interesse">>}

InitIntent ==
    /\ stored = NoFile
    /\ now = 0
    /\ turns = 0
    /\ openai_client \in BOOLEAN
    /\ ESCALATION_METHOD = "email"
    /\ last = NoTurn
    /\ session_cache = <<>>
    /\ wall = 0
    /\ collection = <<>>
    /\ found = NoRetrieval
    /\ asked = NoAnswer
    /\ \E text \in IntentTexts :
         probe = [kind |-> "intent", input |-> text, step |-> "given",
                  reply |-> NoReply, output |-> "none"]
    /\ chunking = NoChunking
    /\ knowledge_base = NoFiles
    /\ chroma = NoDocuments
    /\ ingested = NoIngestion
    /\ requests = NoRequests
    /\ workers = NoWorkers
    /\ carrier = NoCarrier

\* the text is classified; the completion endpoint replies when it is called
\* (lines 974-1004)
ClassifyIntent ==
    /\ probe.step = "given"
    /\ \E r \in (IF ~HasDeclineKeyword(probe.input) /\ openai_client
                 THEN IntentReplies ELSE {NoReply}) :
         probe' = [probe EXCEPT !.step = "classified",
                                !.reply = r,
                                !.output = detect_ticket_intent(probe.input, openai_client, r)]
    /\ UNCHANGED <<core, asked, chunking, knowledge_base, chroma, ingested, requests,
                   workers, carrier>>

NextIntent == ClassifyIntent

SpecIntent == InitIntent /\ [][NextIntent]_vars

Classified == probe.kind = "intent" /\ probe.step = "classified"

\* the text holds one of the decline phrases, whatever the case of its letters
HoldsDeclinePhrase(text) ==
    \/ \E i \in 1..Len(text) : Lower(text)[i] \in {"nee", "no", "nope", "arnold", "not"}
    \/ \E i \in 1..(Len(text) - 2) :
          /\ text[i + 1] = WS
          /\ <<Lower(text)[i], Lower(text)[i + 2]>> \in
                {<<"laat", "maar">>, <<"never", "mind">>, <<"forget", "it">>,
                 <<"niet", "nodig">>, <<"hoeft", "niet">>, <<"geen", "interesse">>}

\* the answer of the model with the white space around it and the case of
\* its letters put aside
Tag(reply) == Lower(strip(reply.content))

\* C33: detect_ticket_intent always returns giving_name, declining or
\* new_question.  A text with a decline phrase gives declining and no
\* completion call; any other text gives the model's answer when that is
\* one of the three tags, and giving_name when there is no client, when the
\* call raises, and when the answer is empty or not one of the tags.
C33_IntentIsOneOfThree ==
    Classified =>
       LET called == probe.reply # NoReply
           tagged == /\ called
                     /\ ~probe.reply.exc
                     /\ Tag(probe.reply) \in {<<"giving_name">>, <<"declining">>,
                                              <<"new_question">>}
       IN  /\ probe.output \in {"giving_name", "declining", "new_question"}
           /\ HoldsDeclinePhrase(probe.input) => probe.output = "declining" /\ ~called
           /\ (~HoldsDeclinePhrase(probe.input) /\ tagged) =>
                 <<probe.output>> = Tag(probe.reply)
           /\ (~HoldsDeclinePhrase(probe.input) /\ ~tagged) => probe.output = "giving_name"
           /\ (~HoldsDeclinePhrase(probe.input) /\ openai_client) => called

\* a text without a decline phrase for which the model answered something
\* that is not a tag
C33_Witness ==
    /\ Classified
    /\ ~HoldsDeclinePhrase(probe.input)
    /\ probe.reply = Reply(<<"maybe">>)
    /\ probe.output = "giving_name"

\* the most recent run of ingest_documents returned
Returned == ingested.kind = "run" /\ ~ingested.result.aborted

\* the names of the .txt and .pdf files of the directory
OnDisk == {knowledge_base[i].name : i \in 1..Len(knowledge_base)}

\* the windows of the text of a file that a store holds as chunks
IndexedWindows(store, name) ==
    {store[id].window : id \in {x \in DOMAIN store : store[x].source = name}}

\* C35 as stated: after an ingestion run in which the store's delete calls
\* succeed, no chunk remains in the vector store whose source is not the
\* name of a .txt or .pdf file in the knowledge-base directory, and no
\* chunk of a file that is still on disk has been deleted.
C35_IndexMatchesDirectory ==
    (Returned /\ ingested.o.delete = "ok") =>
       /\ \A id \in DOMAIN chroma : chroma[id].source \in OnDisk
       /\ \A id \in DOMAIN ingested.held :
             ingested.held[id].source \in OnDisk => id \in DOMAIN chroma

\* the same for the runs that found the directory in place
C35_IndexMatchesExistingDirectory ==
    (Returned /\ ingested.o.delete = "ok" /\ ~ingested.result.created) =>
       /\ \A id \in DOMAIN chroma : chroma[id].source \in OnDisk
       /\ \A id \in DOMAIN ingested.held :
             ingested.held[id].source \in OnDisk => id \in DOMAIN chroma

\* every file of the directory whose first chunk was in the store before
\* the run was skipped and has the windows indexed that it had
IndexedFilesLeftAlone ==
    \A i \in 1..Len(knowledge_base) :
       <<knowledge_base[i].name, "chunk", 0>> \in DOMAIN ingested.held =>
          /\ knowledge_base[i].name \in ingested.result.skipped
          /\ IndexedWindows(chroma, knowledge_base[i].name)
                = IndexedWindows(ingested.held, knowledge_base[i].name)

C36_NoLookupInTicketDialogue ==
    (Turn /\ LoadedState \in {"awaiting_name", "awaiting_email"}) =>
       /\ Res.lookups = <<>>
       /\ Res.shipment = "none"
       /\ Res.response # <<"Oke, geen probleem! Wat is je correcte bestelnummer?">>
       /\ Res.intent # "none" \/ Res.escalations # <<>>
       /\ (LoadedState = "awaiting_name" /\ last.message = <<"Ja">>
             /\ Res.intent = "giving_name") =>
             /\ Res.name_asked
             /\ stored.state = "awaiting_email"
             /\ (~openai_client => stored.name = <<"Ja">>)
             /\ SubState(stored) = SubState(Loaded)

\* 'Ja' arrives in awaiting_name while a fresh confirmation for order 123
\* is pending: it is taken as the name and nothing is looked up
C36_Witness ==
    /\ FreshPending
    /\ LoadedState = "awaiting_name"
    /\ Loaded.pending_order_id = "123"
    /\ last.message = <<"Ja">>
    /\ Res.lookups = <<>>
    /\ Res.name_asked
    /\ stored.state = "awaiting_email"
    /\ HasKey(stored, "pending_order_id")

\* ------------------------------------------------------------------------
\* Replies that say yes and no at once: the same handler with messages
\* that hold a keyword of both sets
\* ------------------------------------------------------------------------
MixedMessages ==
    {<<"order", WS, "123">>,
     <<"no", ",", WS, "that", WS, "is", WS, "not", WS, "correct">>,
     <<"nee", WS, "ja">>,
     <<"Ja">>,
     <<"nope">>}

ChatMixed == ChatWith(MixedMessages, MaxMixedTurns)

NextMixed == ChatMixed \/ Tick

SpecMixed == Init /\ [][NextMixed]_vars

\* the words of the message of the turn, in lower case
WordsOfMessage == {Lower(last.message)[i] : i \in 1..Len(last.message)}

\* the message holds an affirmative and a negative keyword as whole words
YesAndNo ==
    /\ WordsOfMessage \cap {"ja", "yes", "correct", "klopt", "inderdaad"} # {}
    /\ WordsOfMessage \cap {"nee", "no", "nope", "incorrect", "verkeerd"} # {}

\* C39: with a fresh confirmation pending (in a session inactive at load)
\* the affirmative keywords are tested before the negative ones: a message
\* holding a keyword of both sets is a confirmation, so the shipment is
\* looked up once for the pending id and the request for the correct order
\* number is not given.
C39_AffirmativeFirst ==
    (FreshPending /\ LoadedState = "inactive" /\ YesAndNo) =>
       /\ Res.lookups = <<Loaded.pending_order_id>>
       /\ Res.shipment \in {"success", "failure"}
       /\ Res.response # <<"Oke, geen probleem! Wat is je correcte bestelnummer?">>
       /\ SubState(stored) = <<>>

\* 'no, that is not correct' answers the confirmation for order 123 and
\* the shipment is looked up
C39_Witness ==
    /\ FreshPending
    /\ LoadedState = "inactive"
    /\ last.message = <<"no", ",", WS, "that", WS, "is", WS, "not", WS, "correct">>
    /\ Res.lookups = <<"123">>

\* ------------------------------------------------------------------------
\* The conversation history over whole conversations: the same handler,
\* started without a session file or in a session that holds five
\* answered exchanges, so that a ticket dialogue follows a full history
\* ------------------------------------------------------------------------
HistoryMessages ==
    {<<"Ja">>,
     <<"nee">>,
     <<"order", WS, "123">>,
     <<WS, "a@b.co">>}

InitHistory ==
    /\ stored \in {NoFile, AnsweredSession(5)}
    /\ now = 0
    /\ turns = 0
    /\ openai_client \in BOOLEAN
    /\ ESCALATION_METHOD = "email"
    /\ last = NoTurn
    /\ session_cache = <<>>
    /\ wall = 0
    /\ collection = <<>>
    /\ found = NoRetrieval
    /\ AuxIdle

ChatHistory == ChatWith(HistoryMessages, MaxHistoryTurns)

NextHistory == ChatHistory \/ Tick

SpecHistory == InitHistory /\ [][NextHistory]_vars

\* the history the turn loaded and the history it left in the session file
HistoryBefore == Get(Loaded, "chat_history", <<>>)
HistoryAfter == Get(stored, "chat_history", <<>>)

\* the two entries of an answered turn
Exchange == <<[role |-> "user", content |-> last.message],
              [role |-> "assistant", content |-> Res.response]>>

\* user and assistant entries take turns, the user first
Alternating(history) ==
    /\ Len(history) % 2 = 0
    /\ \A i \in 1..Len(history) :
          history[i].role = (IF i % 2 = 1 THEN "user" ELSE "assistant")

\* what every turn but an answered one does to the history
HistoryFrame ==
    /\ (Turn /\ Res.escalations # <<>>) => HistoryAfter = <<>>
    /\ (Turn /\ ~Res.answered /\ Res.escalations = <<>>) => HistoryAfter = HistoryBefore
    /\ (Turn /\ Res.answered) => Res.escalations = <<>>
    /\ Alternating(HistoryAfter)

\* C37: chat_history is changed only by an answered turn, which appends
\* exactly the user message and the final response, or by a valid-email
\* escalation, which empties it; every other turn leaves it unchanged, and
\* the stored history has even length with alternating user and assistant
\* entries.
C37_HistoryOnlyGrowsByExchange ==
    /\ HistoryFrame
    /\ (Turn /\ Res.answered) => HistoryAfter = HistoryBefore \o Exchange

\* C37 (amended): as above, but an answered turn stores the last ten
\* entries of the loaded history followed by the user message and the
\* final response, so with a loaded history of ten entries the two oldest
\* entries are removed as well.
C37_HistoryFrame ==
    /\ HistoryFrame
    /\ (Turn /\ Res.answered) =>
          LET full == HistoryBefore \o Exchange
          IN  HistoryAfter = (IF Len(full) <= 10 THEN full
                              ELSE SubSeq(full, Len(full) - 9, Len(full)))

\* a full history, the request for a human in it, is kept as it is by the
\* turn that declines the ticket
C37_Witness ==
    /\ Turn
    /\ LoadedState = "awaiting_name"
    /\ Res.intent = "declining"
    /\ Len(HistoryBefore) = 10
    /\ HistoryBefore[10].content = <<"Natuurlijk! Wat is je naam?">>
    /\ HistoryAfter = HistoryBefore
    /\ stored.state = "inactive"

\* ------------------------------------------------------------------------
\* The shipping client (shipping_api.py): the cached carrier session and
\* one call of get_shipment_status, frame by frame
\* ------------------------------------------------------------------------
SW_OK == 1
SW_UNKNOWN_API_KEY == -99
SW_UNKNOWN_TRANSPORT_NUMBER == -150
SW_NO_STATUSES_FOUND == -200
SW_SESSION_EXPIRED == -96
SW_INVALID_SESSION == -98

\* line 88: a session is cached for 1 hour and 55 minutes
SessionLife == 115

NoSession == "None"
NoExpiry == -1

\* no call has returned
NoShipment == [success |-> FALSE, status |-> "none", error |-> "none"]

\* the result dicts of get_shipment_status (details left out)
MockResponse == [success |-> TRUE, status |-> "in_transit", error |-> "None"]
InvalidNumber == [success |-> FALSE, status |-> "invalid_number",
                  error |-> "is geen geldig zendingnummer"]
NotFound == [success |-> FALSE, status |-> "not_found", error |-> "Zendingnummer niet gevonden"]
NoStatus == [success |-> FALSE, status |-> "no_status",
             error |-> "Er is nog geen status beschikbaar voor deze zending"]
CarrierError == [success |-> FALSE, status |-> "error", error |-> "StatusWeb fout"]
Shipped == [success |-> TRUE, status |-> "in_transit", error |-> "None"]
NoConnection == [success |-> FALSE, status |-> "error",
                 error |-> "Kon geen verbinding maken met de vervoerder"]
WentWrong == [success |-> FALSE, status |-> "error",
              error |-> "Er ging iets mis bij het ophalen van de status"]

ResultDicts ==
    {MockResponse, InvalidNumber, NotFound, NoStatus, CarrierError, Shipped, NoConnection,
     WentWrong}

\* float(tracking_code) succeeds
IsNumber(tracking_code) == tracking_code \in {"123"}

TrackingCodes == {"123", "abc"}

\* a call of the SOAP service answers with an error code or fails
Errorcode(code) == [kind |-> "answer", code |-> code]
Fails(how) == [kind |-> how, code |-> 0]
NoCall == [kind |-> "none", code |-> 0]

\* what GetSessionID does: it answers with an error code or it raises; the
\* WSDL may fail to load before it
SessionReplies == {Fails("wsdl"), Fails("raise"), Errorcode(SW_OK), Errorcode(SW_UNKNOWN_API_KEY)}

\* what GetStatusVrachtnummer does: it answers with an error code or it raises
StatusReplies ==
    {Fails("raise")} \cup
    {Errorcode(code) : code \in {SW_OK, SW_UNKNOWN_API_KEY, SW_UNKNOWN_TRANSPORT_NUMBER,
                                 SW_NO_STATUSES_FOUND, SW_SESSION_EXPIRED, SW_INVALID_SESSION}}

\* ShippingAPIClient.__init__ with or without SHIPPING_API_KEY
InitShipping ==
    /\ stored = NoFile
    /\ now = 0
    /\ turns = 0
    /\ openai_client = TRUE
    /\ ESCALATION_METHOD = "email"
    /\ last = NoTurn
    /\ session_cache = <<>>
    /\ wall = 0
    /\ collection = <<>>
    /\ found = NoRetrieval
    /\ asked = NoAnswer
    /\ probe = NoProbe
    /\ chunking = NoChunking
    /\ knowledge_base = NoFiles
    /\ chroma = NoDocuments
    /\ ingested = NoIngestion
    /\ requests = NoRequests
    /\ workers = NoWorkers
    /\ \E mock \in BOOLEAN :
         carrier = [pc |-> "idle", use_mock |-> mock,
                    session_id |-> NoSession, session_expires |-> NoExpiry,
                    clock |-> 0, calls |-> 0, tracking_code |-> "none",
                    depth |-> 0,          \* frames of get_shipment_status on the stack
                    status_requests |-> 0, \* GetStatusVrachtnummer calls of the call
                    session_requests |-> 0, \* GetSessionID calls of the call
                    reply |-> NoCall,       \* the last answer to a status request
                    result |-> NoShipment]

ShippingFrame ==
    UNCHANGED <<core, asked, probe, chunking, knowledge_base, chroma, ingested, requests,
                workers>>

\* the call returns through all its frames with a result dict
ReturnDict(c, result) == [c EXCEPT !.pc = "idle", !.depth = 0, !.result = result]

\* lines 109-113: get_shipment_status is called on the client
CallStatus ==
    /\ carrier.pc = "idle"
    /\ carrier.calls < MaxCalls
    /\ \E tracking_code \in TrackingCodes :
         LET c == [carrier EXCEPT !.calls = @ + 1, !.tracking_code = tracking_code,
                                  !.status_requests = 0, !.session_requests = 0,
                                  !.reply = NoCall, !.result = NoShipment]
         IN  carrier' = IF carrier.use_mock THEN ReturnDict(c, MockResponse)
                        ELSE [c EXCEPT !.pc = "session", !.depth = 1]
    /\ ShippingFrame

\* lines 53-98, called at line 113: the cached session if it is still
\* valid, a new one otherwise; a failure leaves as ConnectionError, a WSDL
\* that cannot be loaded as the exception of the SOAP library
GetSessionId ==
    /\ carrier.pc = "session"
    /\ IF /\ carrier.session_id # NoSession
          /\ carrier.session_expires # NoExpiry
          /\ carrier.clock < carrier.session_expires
       THEN carrier' = [carrier EXCEPT !.pc = "status"]
       ELSE \E reply \in SessionReplies :
               carrier' =
                  IF reply.kind = "wsdl" THEN ReturnDict(carrier, WentWrong)
                  ELSE LET c == [carrier EXCEPT !.session_requests = @ + 1]
                       IN  IF reply.kind = "answer" /\ reply.code = SW_OK
                           THEN [c EXCEPT !.pc = "status",
                                          !.session_id = "session",
                                          !.session_expires = carrier.clock + SessionLife]
                           ELSE ReturnDict(c, NoConnection)
    /\ ShippingFrame

\* lines 114-157 and 243-258: the number is converted, the status is
\* requested and the error code is looked at; on a session-expired or
\* invalid-session code the cached session is cleared and
\* get_shipment_status calls itself, which raises RecursionError when the
\* stack is full
RequestStatus ==
    /\ carrier.pc = "status"
    /\ IF ~IsNumber(carrier.tracking_code)
       THEN carrier' = ReturnDict(carrier, InvalidNumber)
       ELSE \E reply \in StatusReplies :
               LET c == [carrier EXCEPT !.status_requests = @ + 1, !.reply = reply]
                   cleared == [c EXCEPT !.session_id = NoSession,
                                        !.session_expires = NoExpiry]
                   error_code == reply.code
               IN  carrier' =
                      IF reply.kind = "raise" THEN ReturnDict(c, WentWrong)
                      ELSE IF error_code = SW_UNKNOWN_TRANSPORT_NUMBER THEN ReturnDict(c, NotFound)
                      ELSE IF error_code = SW_NO_STATUSES_FOUND THEN ReturnDict(c, NoStatus)
                      ELSE IF error_code \in {SW_SESSION_EXPIRED, SW_INVALID_SESSION}
                      THEN (IF c.depth < RecursionLimit
                            THEN [cleared EXCEPT !.pc = "session", !.depth = @ + 1]
                            ELSE ReturnDict(cleared, WentWrong))
                      ELSE IF error_code # SW_OK THEN ReturnDict(c, CarrierError)
                      ELSE ReturnDict(c, Shipped)
    /\ ShippingFrame

\* time passes between two calls
Later ==
    /\ carrier.pc = "idle"
    /\ carrier.clock + SessionLife <= MaxShippingClock
    /\ carrier' = [carrier EXCEPT !.clock = @ + SessionLife]
    /\ ShippingFrame

NextShipping == CallStatus \/ GetSessionId \/ RequestStatus \/ Later

SpecShipping == InitShipping /\ [][NextShipping]_vars

\* a call of get_shipment_status has returned
ShipmentReturned == carrier.pc = "idle" /\ carrier.calls > 0

\* C40: when the carrier answers a status request with a session-expired
\* or invalid-session code the cached session is cleared, a new one is
\* obtained and the request is retried once: a call makes at most two
\* status requests and it returns a result dict, even if the carrier keeps
\* answering session-expired.
C40_RetriesOnce ==
    /\ carrier.status_requests <= 2
    /\ ShipmentReturned => carrier.result \in ResultDicts

\* the call returns a result dict however often the carrier answers
\* session-expired: the stack of the interpreter ends the retries
ShipmentCallReturns ==
    /\ carrier.depth <= RecursionLimit
    /\ carrier.status_requests <= RecursionLimit
    /\ ShipmentReturned => carrier.result \in ResultDicts

\* one retry with a new session that the carrier accepts
RetriedOnce ==
    /\ ShipmentReturned
    /\ carrier.status_requests = 2
    /\ carrier.session_requests = 2
    /\ carrier.result = Shipped

====
